---- MODULE Spec2Model ----
(***************************************************************************)
(* Producer lifecycle and publish pipeline of the memphis.go client:       *)
(* CreateProducer / Destroy / Produce of producer.go, the request/reply    *)
(* primitives of connect.go, and the metadata pushed by the broker.        *)
(*                                                                         *)
(* Strings the code formats, splits or parses (station names, producer     *)
(* names, registry keys, subjects, broker replies, payload bytes) are      *)
(* sequences of one-character strings, so that Sprintf, strings.Split,     *)
(* strconv.Atoi, strings.ToLower and strings.Contains are computed.        *)
(***************************************************************************)
EXTENDS Integers, Sequences, FiniteSets, TLC

VARIABLES
    producers,           \* heap of Producer objects; the index is the pointer
    producersMap,        \* Conn.producersMap: registry key -> pointer
    stationUpdatesSubs,  \* Conn.stationUpdatesSubs: sn -> [refCount, schemaType]
    stationFunctionSubs, \* Conn.stationFunctionSubs: sn -> [refCount, PartitionsFunctions,
                         \*                                 StationFunctionsMu]
    stationPartitions,   \* Conn.stationPartitions: sn -> PartitionsList
    clientsUpdatesSub,   \* Conn.clientsUpdatesSub: send_notification, StationSchemaverseToDlsMap
    pc,                  \* the caller: "idle", "select" (blocked in produce's select), "crashed"
    paf,                 \* the PubAckFuture of the last accepted publish
    ret,                 \* what the last API call did and returned
    destroyed,           \* pointers whose Destroy returned nil (history)
    rrCalls,             \* per pointer: publishes that asked the round-robin generator (history)
    stationUpdatesMu,    \* Conn.stationUpdatesMu: a sync.RWMutex
    sdkClientsUpdatesMu, \* Conn.sdkClientsUpdatesMu: a sync.RWMutex
    goroutines           \* concurrent callers and the dispatch goroutine: where each one is

vars == <<producers, producersMap, stationUpdatesSubs, stationFunctionSubs,
          stationPartitions, clientsUpdatesSub, pc, paf, ret, destroyed, rrCalls,
          stationUpdatesMu, sdkClientsUpdatesMu, goroutines>>

\* What a call that runs alone, from its entry to its return, leaves as it
\* found it: the locks it took are released, no other goroutine moved
concurrent == <<stationUpdatesMu, sdkClientsUpdatesMu, goroutines>>

----------------------------------------------------------------------------
(* Bounds of the model *)

MaxProducers == 2
MaxRR == 4

----------------------------------------------------------------------------
(* Go maps: functions with a dynamic domain *)

EmptyMap == <<>>

HasKey(m, k) == k \in DOMAIN m

Put(m, k, v) == [x \in (DOMAIN m) \cup {k} |-> IF x = k THEN v ELSE m[x]]

Del(m, k) == [x \in (DOMAIN m) \ {k} |-> m[x]]

----------------------------------------------------------------------------
(* Strings *)

UpperChars == <<"A", "B", "S">>
LowerChars == <<"a", "b", "s">>
Digits == <<"0", "1", "2", "3", "4", "5", "6", "7", "8", "9">>

LowerChar(c) ==
    IF \E i \in 1..Len(UpperChars) : UpperChars[i] = c
    THEN LowerChars[CHOOSE i \in 1..Len(UpperChars) : UpperChars[i] = c]
    ELSE c

\* strings.ToLower
ToLower(s) == [i \in 1..Len(s) |-> LowerChar(s[i])]

\* getInternalName: the internal per-station identifier of a station name
getInternalName(s) == ToLower(s)

IsDigit(c) == \E i \in 1..10 : Digits[i] = c

DigitVal(c) == (CHOOSE i \in 1..10 : Digits[i] = c) - 1

\* fmt.Sprintf("%v", n) of an int
RECURSIVE Itoa(_)
Itoa(n) ==
    IF n < 0 THEN <<"-">> \o Itoa(0 - n)
    ELSE IF n < 10 THEN <<Digits[n + 1]>>
    ELSE Itoa(n \div 10) \o <<Digits[(n % 10) + 1]>>

RECURSIVE AtoiVal(_)
AtoiVal(s) ==
    IF Len(s) = 0 THEN 0
    ELSE 10 * AtoiVal(SubSeq(s, 1, Len(s) - 1)) + DigitVal(s[Len(s)])

\* strconv.Atoi: [ok, n]; an optional sign, then one or more digits
Atoi(s) ==
    LET neg  == Len(s) > 0 /\ s[1] = "-"
        pos  == Len(s) > 0 /\ s[1] = "+"
        body == IF neg \/ pos THEN Tail(s) ELSE s
    IN  IF Len(body) > 0 /\ \A i \in 1..Len(body) : IsDigit(body[i])
        THEN [ok |-> TRUE, n |-> IF neg THEN 0 - AtoiVal(body) ELSE AtoiVal(body)]
        ELSE [ok |-> FALSE, n |-> 0]

\* strings.Split(s, sep) for a one-character sep: the list of segments
RECURSIVE Split(_, _)
Split(s, sep) ==
    IF \E i \in 1..Len(s) : s[i] = sep
    THEN LET i == CHOOSE j \in 1..Len(s) : s[j] = sep /\ \A k \in 1..(j - 1) : s[k] # sep
         IN  <<SubSeq(s, 1, i - 1)>> \o Split(SubSeq(s, i + 1, Len(s)), sep)
    ELSE <<s>>

\* strings.Contains(s, sub)
Contains(s, sub) ==
    \E i \in 1..(Len(s) - Len(sub) + 1) : SubSeq(s, i, i + Len(sub) - 1) = sub

\* fmt.Sprintf("%s_%s", a, b)
KeyOf(a, b) == a \o <<"_">> \o b

\* fmt.Sprintf("%v$%v", sn, n)
StreamOf(sn, n) == sn \o <<"$">> \o Itoa(n)

FinalSuffix == <<".", "f", "i", "n", "a", "l">>
FunctionsInfix == <<".", "f", "u", "n", "c", "t", "i", "o", "n", "s", ".">>

----------------------------------------------------------------------------
(* Errors: the sentinel or the cause, the text carried, and whether          *)
(* memphisError wrapped it                                                   *)

Err(kind, text) == [kind |-> kind, text |-> text, memphis |-> FALSE]

NoErr == Err("nil", <<>>)

memphisError(e) == [e EXCEPT !.memphis = TRUE]

IsNil(e) == e.kind = "nil"

----------------------------------------------------------------------------
(* Producer objects and the producer registry *)

ConnId == "conn-1"

NilPG == <<>>

\* newRoundRobinGenerator: the cursor starts at the first element
newRoundRobinGenerator(list) == <<[Partitions |-> list, Current |-> 0]>>

NewProducer(stationName, name, realName) ==
    [Name |-> name, stationName |-> stationName, realName |-> realName,
     PartitionGenerator |-> NilPG, isMultiStationProducer |-> FALSE]

\* producersMap.getProducer: the pointer, 0 for nil
getProducer(pm, pn) == IF HasKey(pm, pn) THEN pm[pn] ELSE 0

\* producersMap.setProducer: the entry is keyed by station and name
setProducer(pm, heap, ptr) ==
    Put(pm, KeyOf(getInternalName(heap[ptr].stationName), heap[ptr].Name), ptr)

\* producersMap.unsetProducer
unsetProducer(pm, pn) == Del(pm, pn)

\* A caching that stores nothing
cacheProducerSkipped(pm, heap, ptr) == pm

cacheProducer(pm, heap, ptr) == setProducer(pm, heap, ptr)

\* Conn.unCacheProducer: unsets the key only when the lookup found nothing
unCacheProducer(pm, p) ==
    LET pn == KeyOf(p.stationName, p.realName)
    IN  IF getProducer(pm, pn) = 0 THEN unsetProducer(pm, pn) ELSE pm

\* extendNameWithRandSuffix: name + "_" + randomHex
extendNameWithRandSuffix(name, hex) == name \o <<"_">> \o hex

----------------------------------------------------------------------------
(* MetadataSync: the per-station subscriptions *)

\* A sync.RWMutex: whether a writer holds it, and how many readers do
RWMutex(writer, readers) == [writer |-> writer, readers |-> readers]
Unlocked == RWMutex(FALSE, 0)

\* Lock and RLock return at once when CanLock, CanRLock; they block otherwise
CanLock(m) == ~m.writer /\ m.readers = 0
CanRLock(m) == ~m.writer

\* Conn.listenToSchemaUpdates: the first listener subscribes, later ones count
listenToSchemaUpdates(subs, sn) ==
    IF HasKey(subs, sn)
    THEN [subs EXCEPT ![sn].refCount = @ + 1]
    ELSE Put(subs, sn, [refCount |-> 1, schemaType |-> ""])

\* Conn.removeSchemaUpdatesListener: the last listener unsubscribes
removeSchemaUpdatesListener(subs, sn) ==
    IF ~HasKey(subs, sn) THEN subs
    ELSE IF subs[sn].refCount <= 1 THEN Del(subs, sn)
    ELSE [subs EXCEPT ![sn].refCount = @ - 1]

\* Conn.listenToFunctionsUpdates: the snapshot replaces the map
listenToFunctionsUpdates(subs, sn, functions) ==
    IF HasKey(subs, sn)
    THEN [subs EXCEPT ![sn].refCount = @ + 1, ![sn].PartitionsFunctions = functions]
    ELSE Put(subs, sn, [refCount |-> 1, PartitionsFunctions |-> functions,
                        StationFunctionsMu |-> Unlocked])

\* Conn.removeFunctionsUpdatesListener
removeFunctionsUpdatesListener(subs, sn) ==
    IF ~HasKey(subs, sn) THEN subs
    ELSE IF subs[sn].refCount <= 1 THEN Del(subs, sn)
    ELSE [subs EXCEPT ![sn].refCount = @ - 1]

\* schemaDetails.handleSchemaUpdateInit
handleSchemaUpdateInit(subs, sn, schemaType) ==
    [subs EXCEPT ![sn].schemaType = schemaType]

----------------------------------------------------------------------------
(* LifecycleRPC: the replies of the broker and how they are handled *)

\* The text of a broker rejection, and of a reply that says "not exist"
RejectText == <<"b", "a", "d">>
NotExistText == <<"p", " ", "d", "o", "e", "s", " ", "n", "o", "t", " ", "e", "x", "i", "s", "t">>
NotExist == <<"n", "o", "t", " ", "e", "x", "i", "s", "t">>

\* A creation reply: the request timed out, or data came back that does not
\* parse as a createProducerResp ("raw"), or a createProducerResp ("json")
CreationReply(kind, data, err, schemaType, partitions, version, functions, notify, dls) ==
    [kind |-> kind, data |-> data, Err |-> err, SchemaType |-> schemaType,
     PartitionsList |-> partitions, StationVersion |-> version,
     StationPartitionsFirstFunctions |-> functions,
     ClusterSendNotification |-> notify, SchemaVerseToDls |-> dls, timeouts |-> 0]

\* The reply that arrives after n requests of the call timed out
AfterTimeouts(n, reply) == [reply EXCEPT !.timeouts = n]

\* getDefaultProducerOpts: TimeoutRetry
DefaultTimeoutRetry == 5

\* A call that sends its request timeoutRetry times whatever comes back
requestEveryAttempt(reply, timeoutRetry) ==
    [reqs |-> timeoutRetry,
     timeouts |-> IF reply.kind = "timeout" THEN timeoutRetry ELSE reply.timeouts,
     timedOut |-> reply.kind = "timeout" \/ reply.timeouts >= timeoutRetry]

\* The requests of one lifecycle call with the TimeoutRetry request option:
\* the request is sent again after a timeout, timeoutRetry times in all at
\* most. The requests sent, those that timed out, and whether the call ends
\* with a timeout.
request(reply, timeoutRetry) ==
    LET lost == IF reply.kind = "timeout" \/ reply.timeouts >= timeoutRetry
                THEN timeoutRetry ELSE reply.timeouts
    IN  [reqs |-> IF lost = timeoutRetry THEN timeoutRetry ELSE lost + 1,
         timeouts |-> lost,
         timedOut |-> lost = timeoutRetry]

TimeoutReply == CreationReply("timeout", <<>>, <<>>, "", <<>>, 0, EmptyMap, FALSE, FALSE)

RawReply(data) == CreationReply("raw", data, <<>>, "", <<>>, 0, EmptyMap, FALSE, FALSE)

\* defaultHandleCreationResp: the reply of an old broker is a plaintext error
defaultHandleCreationResp(data) ==
    IF Len(data) > 0 THEN Err("broker", data) ELSE NoErr

\* A handler that makes a generator only for more than one partition
handleCreationRespAboveOne(p, reply, st, fsubFails) ==
    LET sn     == getInternalName(p.stationName)
        same   == [err |-> NoErr, subs |-> st.subs, parts |-> st.parts,
                   fsubs |-> st.fsubs, cus |-> st.cus, pg |-> p.PartitionGenerator]
        subs1  == handleSchemaUpdateInit(st.subs, sn, reply.SchemaType)
        parts1 == Put(st.parts, sn, reply.PartitionsList)
        pg1    == IF Len(parts1[sn]) > 1
                  THEN newRoundRobinGenerator(parts1[sn])
                  ELSE p.PartitionGenerator
        fsubs1 == IF reply.StationVersion >= 2
                  THEN listenToFunctionsUpdates(st.fsubs, sn, reply.StationPartitionsFirstFunctions)
                  ELSE st.fsubs
        cus1   == [send_notification |-> reply.ClusterSendNotification,
                   StationSchemaverseToDlsMap |->
                       Put(st.cus.StationSchemaverseToDlsMap, sn, reply.SchemaVerseToDls)]
    IN  IF reply.kind = "raw"
        THEN [same EXCEPT !.err = defaultHandleCreationResp(reply.data)]
        ELSE IF reply.Err # <<>>
        THEN [same EXCEPT !.err = memphisError(Err("broker", reply.Err))]
        ELSE IF reply.StationVersion >= 2 /\ fsubFails
        THEN [same EXCEPT !.err = memphisError(Err("subscribe", <<>>)),
                          !.subs = subs1, !.parts = parts1, !.pg = pg1]
        ELSE [err |-> NoErr, subs |-> subs1, parts |-> parts1,
              fsubs |-> fsubs1, cus |-> cus1, pg |-> pg1]

\* Producer.handleCreationResp on producer p with the connection's
\* metadata st = [subs, parts, fsubs, cus]; fsubFails: the subscription to the
\* functions updates fails.  Gives the error, the metadata and p's generator.
handleCreationResp(p, reply, st, fsubFails) ==
    LET sn     == getInternalName(p.stationName)
        same   == [err |-> NoErr, subs |-> st.subs, parts |-> st.parts,
                   fsubs |-> st.fsubs, cus |-> st.cus, pg |-> p.PartitionGenerator]
        subs1  == handleSchemaUpdateInit(st.subs, sn, reply.SchemaType)
        parts1 == Put(st.parts, sn, reply.PartitionsList)
        pg1    == IF Len(parts1[sn]) # 0
                  THEN newRoundRobinGenerator(parts1[sn])
                  ELSE p.PartitionGenerator
        fsubs1 == IF reply.StationVersion >= 2
                  THEN listenToFunctionsUpdates(st.fsubs, sn, reply.StationPartitionsFirstFunctions)
                  ELSE st.fsubs
        cus1   == [send_notification |-> reply.ClusterSendNotification,
                   StationSchemaverseToDlsMap |->
                       Put(st.cus.StationSchemaverseToDlsMap, sn, reply.SchemaVerseToDls)]
    IN  IF reply.kind = "raw"
        THEN [same EXCEPT !.err = defaultHandleCreationResp(reply.data)]
        ELSE IF reply.Err # <<>>
        THEN [same EXCEPT !.err = memphisError(Err("broker", reply.Err))]
        ELSE IF reply.StationVersion >= 2 /\ fsubFails
        THEN [same EXCEPT !.err = memphisError(Err("subscribe", <<>>)),
                          !.subs = subs1, !.parts = parts1, !.pg = pg1]
        ELSE [err |-> NoErr, subs |-> subs1, parts |-> parts1,
              fsubs |-> fsubs1, cus |-> cus1, pg |-> pg1]

\* Conn.create with the TimeoutRetry of the producer options: a transport
\* error is returned as it is once the attempts are used up, a reply is handed
\* to the object's handleCreationResp
create(p, reply, st, fsubFails) ==
    LET rq == request(reply, DefaultTimeoutRetry)
    IN  IF rq.timedOut
        THEN rq @@ [err |-> Err("timeout", <<>>), subs |-> st.subs, parts |-> st.parts,
                    fsubs |-> st.fsubs, cus |-> st.cus, pg |-> p.PartitionGenerator]
        ELSE rq @@ handleCreationResp(p, reply, st, fsubFails)

\* A destroy that takes every non-empty reply for a failure
destroyStrict(reply) ==
    IF reply.kind = "timeout" THEN Err("timeout", <<>>)
    ELSE IF Len(reply.data) > 0 THEN Err("broker", reply.data)
    ELSE NoErr

\* Conn.destroy: "not exist" in the reply counts as success
destroy(reply) ==
    IF reply.kind = "timeout" THEN Err("timeout", <<>>)
    ELSE IF Len(reply.data) > 0 /\ ~Contains(reply.data, NotExist)
    THEN Err("broker", reply.data)
    ELSE NoErr

----------------------------------------------------------------------------
(* What the last API call did: the observations the properties are about *)

RetNone ==
    [op |-> "none", seq |-> 0, returned |-> TRUE,
     station |-> <<>>, name |-> <<>>, gen |-> FALSE,
     prod |-> 0, err |-> NoErr, cached |-> FALSE, gone |-> FALSE,
     createReqs |-> 0, destroyReqs |-> 0, timeouts |-> 0, reply |-> <<>>, timeout |-> FALSE,
     published |-> FALSE, accepted |-> FALSE, subject |-> <<>>, data |-> <<>>,
     hdrs |-> EmptyMap, header |-> EmptyMap, msg |-> <<>>, key |-> <<>>, number |-> -1,
     partition |-> 0, rr |-> FALSE, mode |-> "default", async |-> TRUE,
     rejected |-> FALSE, dls |-> 0, notifs |-> 0, dlsFailed |-> FALSE, notifFailed |-> FALSE,
     log |-> <<>>, failedAt |-> 0]

\* The goroutines that call the client concurrently, and goroutine 0, which
\* dispatches the broker's pushes to the listeners
MaxGoroutines == 2
Goroutines == 0..MaxGoroutines
Callers == 1..MaxGoroutines

\* A goroutine that is in no call
\* A goroutine that is in no call. at: the statement it is about to execute;
\* prod: the producer its last CreateProducer returned; reqs: the creation
\* requests of its last CreateProducer; stream: the stream name of its publish
Idle == [at |-> "idle", op |-> "none", station |-> <<>>, name |-> <<>>, prod |-> 0,
         new |-> 0, calls |-> 0, reqs |-> 0, err |-> FALSE, verdict |-> "ok",
         stream |-> <<>>]

Init ==
    /\ producers = <<>>
    /\ producersMap = EmptyMap
    /\ stationUpdatesSubs = EmptyMap
    /\ stationFunctionSubs = EmptyMap
    /\ stationPartitions = EmptyMap
    /\ clientsUpdatesSub = [send_notification |-> FALSE, StationSchemaverseToDlsMap |-> EmptyMap]
    /\ pc = "idle"
    /\ paf = [state |-> "none", text |-> <<>>]
    /\ ret = RetNone
    /\ destroyed = {}
    /\ rrCalls = <<>>
    /\ stationUpdatesMu = Unlocked
    /\ sdkClientsUpdatesMu = Unlocked
    /\ goroutines = [g \in Goroutines |-> Idle]

----------------------------------------------------------------------------
(* CreateProducer *)

\* The element of a set of one element
Only(S) == CHOOSE x \in S : TRUE

\* F of the value of v, v evaluated once
With(v, F(_)) == Only({F(x) : x \in {v}})

\* The connection's state as one value: what a call reads and leaves behind
World ==
    [producers |-> producers, producersMap |-> producersMap,
     stationUpdatesSubs |-> stationUpdatesSubs, stationFunctionSubs |-> stationFunctionSubs,
     stationPartitions |-> stationPartitions, clientsUpdatesSub |-> clientsUpdatesSub,
     destroyed |-> destroyed, rrCalls |-> rrCalls]

\* The connection's state after a call is w
Becomes(w) ==
    /\ producers' = w.producers
    /\ producersMap' = w.producersMap
    /\ stationUpdatesSubs' = w.stationUpdatesSubs
    /\ stationFunctionSubs' = w.stationFunctionSubs
    /\ stationPartitions' = w.stationPartitions
    /\ clientsUpdatesSub' = w.clientsUpdatesSub
    /\ destroyed' = w.destroyed
    /\ rrCalls' = w.rrCalls

\* A creation that keeps the schema listener of a failed attempt
createSingleStationProducerOnLeaky(w, stationName, name, nameWithoutSuffix, reply, fault) ==
    LET sn    == getInternalName(stationName)
        pn    == KeyOf(sn, name)
        cp    == getProducer(w.producersMap, pn)
        p     == NewProducer(stationName, name, nameWithoutSuffix)
        subs0 == listenToSchemaUpdates(w.stationUpdatesSubs, sn)
        st    == [subs |-> subs0, parts |-> w.stationPartitions,
                  fsubs |-> w.stationFunctionSubs, cus |-> w.clientsUpdatesSub]
        ptr   == Len(w.producers) + 1
        none  == [w |-> w, prod |-> 0, err |-> NoErr, cached |-> FALSE, reqs |-> 0,
                  timeouts |-> 0, reply |-> <<>>, timeout |-> FALSE]
    IN  IF cp # 0
        THEN [none EXCEPT !.prod = cp, !.cached = TRUE]
        ELSE IF fault = "sub"
        THEN [none EXCEPT !.err = memphisError(Err("subscribe", <<>>))]
        ELSE With(create(p, reply, st, fault = "fsub"), LAMBDA r :
        LET heap == Append(w.producers, [p EXCEPT !.PartitionGenerator = r.pg])
            text == IF r.timedOut THEN <<>>
                    ELSE IF reply.kind = "json" THEN reply.Err ELSE reply.data
        IN
        IF ~IsNil(r.err)
        THEN [none EXCEPT
                 !.w = [w EXCEPT !.stationUpdatesSubs =
                                     r.subs,
                                 !.stationPartitions = r.parts,
                                 !.stationFunctionSubs = r.fsubs,
                                 !.clientsUpdatesSub = r.cus],
                 !.reqs = r.reqs, !.timeouts = r.timeouts, !.reply = text,
                 !.timeout = r.timedOut,
                 !.err = IF fault = "unsub"
                         THEN memphisError(Err("unsubscribe", <<>>))
                         ELSE memphisError(r.err)]
        ELSE [none EXCEPT
                 !.w = [w EXCEPT !.producers = heap,
                                 !.producersMap = cacheProducer(w.producersMap, heap, ptr),
                                 !.rrCalls = Append(w.rrCalls, 0),
                                 !.stationUpdatesSubs = r.subs,
                                 !.stationPartitions = r.parts,
                                 !.stationFunctionSubs = r.fsubs,
                                 !.clientsUpdatesSub = r.cus],
                 !.prod = ptr, !.reqs = r.reqs, !.timeouts = r.timeouts, !.reply = text])

\* Conn.createSingleStationProducer on the connection state w, from the
\* registry lookup to the caching: the state after, the producer (0 for nil),
\* the error, and what went over the wire.
\* fault: which of the broker subscriptions of this call fails ("none",
\* "sub": listening to schema updates, "fsub": listening to functions updates,
\* "unsub": removing the schema listener after a failed creation).
createSingleStationProducerOn(w, stationName, name, nameWithoutSuffix, reply, fault) ==
    LET sn    == getInternalName(stationName)
        pn    == KeyOf(sn, name)
        cp    == getProducer(w.producersMap, pn)
        p     == NewProducer(stationName, name, nameWithoutSuffix)
        subs0 == listenToSchemaUpdates(w.stationUpdatesSubs, sn)
        st    == [subs |-> subs0, parts |-> w.stationPartitions,
                  fsubs |-> w.stationFunctionSubs, cus |-> w.clientsUpdatesSub]
        ptr   == Len(w.producers) + 1
        none  == [w |-> w, prod |-> 0, err |-> NoErr, cached |-> FALSE, reqs |-> 0,
                  timeouts |-> 0, reply |-> <<>>, timeout |-> FALSE]
    IN  IF cp # 0
        THEN [none EXCEPT !.prod = cp, !.cached = TRUE]
        ELSE IF fault = "sub"
        THEN [none EXCEPT !.err = memphisError(Err("subscribe", <<>>))]
        ELSE With(create(p, reply, st, fault = "fsub"), LAMBDA r :
        LET heap == Append(w.producers, [p EXCEPT !.PartitionGenerator = r.pg])
            text == IF r.timedOut THEN <<>>
                    ELSE IF reply.kind = "json" THEN reply.Err ELSE reply.data
        IN
        IF ~IsNil(r.err)
        THEN [none EXCEPT
                 !.w = [w EXCEPT !.stationUpdatesSubs =
                                     IF fault = "unsub" THEN r.subs
                                     ELSE removeSchemaUpdatesListener(r.subs, sn),
                                 !.stationPartitions = r.parts,
                                 !.stationFunctionSubs = r.fsubs,
                                 !.clientsUpdatesSub = r.cus],
                 !.reqs = r.reqs, !.timeouts = r.timeouts, !.reply = text,
                 !.timeout = r.timedOut,
                 !.err = IF fault = "unsub"
                         THEN memphisError(Err("unsubscribe", <<>>))
                         ELSE memphisError(r.err)]
        ELSE [none EXCEPT
                 !.w = [w EXCEPT !.producers = heap,
                                 !.producersMap = cacheProducer(w.producersMap, heap, ptr),
                                 !.rrCalls = Append(w.rrCalls, 0),
                                 !.stationUpdatesSubs = r.subs,
                                 !.stationPartitions = r.parts,
                                 !.stationFunctionSubs = r.fsubs,
                                 !.clientsUpdatesSub = r.cus],
                 !.prod = ptr, !.reqs = r.reqs, !.timeouts = r.timeouts, !.reply = text])

\* Conn.createSingleStationProducer as the caller's call; at most MaxProducers
\* producers are created
createSingleStationProducer(stationName, name, nameWithoutSuffix, reply, fault) ==
    LET call == [RetNone EXCEPT !.op = "CreateProducer", !.seq = 1 - ret.seq,
                                !.station = stationName, !.name = name,
                                !.gen = (name # nameWithoutSuffix)]
    IN  \E r \in {createSingleStationProducerOn(World, stationName, name, nameWithoutSuffix,
                                                reply, fault)} :
            /\ Len(r.w.producers) <= MaxProducers
            /\ ret' = [call EXCEPT !.prod = r.prod, !.cached = r.cached, !.err = r.err,
                                   !.createReqs = r.reqs, !.timeouts = r.timeouts,
                                   !.reply = r.reply,
                                   !.timeout = r.timeout]
            /\ producers' = r.w.producers
            /\ producersMap' = r.w.producersMap
            /\ stationUpdatesSubs' = r.w.stationUpdatesSubs
            /\ stationFunctionSubs' = r.w.stationFunctionSubs
            /\ stationPartitions' = r.w.stationPartitions
            /\ clientsUpdatesSub' = r.w.clientsUpdatesSub
            /\ rrCalls' = r.w.rrCalls

\* Conn.CreateProducer with a station name that is a string
CreateProducer(stationName, nameArg, genUniqueSuffix, hex, reply, fault) ==
    LET name == ToLower(nameArg)
    IN  /\ pc = "idle"
        /\ createSingleStationProducer(
               stationName,
               IF genUniqueSuffix THEN extendNameWithRandSuffix(name, hex) ELSE name,
               name, reply, fault)
        /\ UNCHANGED <<pc, paf, destroyed>>
        /\ UNCHANGED concurrent

----------------------------------------------------------------------------
(* Destroy *)

\* A destroy reply: a timeout, or the data of the reply
DestroyReply(kind, data) == [kind |-> kind, data |-> data, timeouts |-> 0]

\* Producer.destroySingleStationProducer of producer ptr on the connection
\* state w: the state after, the error, and what went over the wire.
\* fault: "unsub" / "funsub": removing the schema / functions listener fails.
destroySingleStationProducerOn(w, ptr, reply, fault) ==
    LET p      == w.producers[ptr]
        sn     == getInternalName(p.stationName)
        subs1  == removeSchemaUpdatesListener(w.stationUpdatesSubs, sn)
        fsubs1 == removeFunctionsUpdatesListener(w.stationFunctionSubs, sn)
        rq     == request(reply, DefaultTimeoutRetry)
        err    == destroy(IF rq.timedOut THEN [reply EXCEPT !.kind = "timeout"] ELSE reply)
        none   == [w |-> w, err |-> NoErr, reqs |-> 0, timeouts |-> 0, reply |-> <<>>,
                   timeout |-> FALSE]
    IN  IF fault = "unsub"
        THEN [none EXCEPT !.err = memphisError(Err("unsubscribe", <<>>))]
        ELSE IF fault = "funsub"
        THEN [none EXCEPT !.err = memphisError(Err("unsubscribe", <<>>)),
                          !.w = [w EXCEPT !.stationUpdatesSubs = subs1]]
        ELSE [none EXCEPT
                 !.err = err, !.reqs = rq.reqs, !.timeouts = rq.timeouts,
                 !.reply = IF rq.timedOut THEN <<>> ELSE reply.data,
                 !.timeout = rq.timedOut,
                 !.w = [w EXCEPT !.stationUpdatesSubs = subs1,
                                 !.stationFunctionSubs = fsubs1,
                                 !.producersMap = IF IsNil(err)
                                                  THEN unCacheProducer(w.producersMap, p)
                                                  ELSE w.producersMap,
                                 !.destroyed = IF IsNil(err) THEN w.destroyed \cup {ptr}
                                               ELSE w.destroyed]]

\* Producer.destroySingleStationProducer as the caller's call
destroySingleStationProducer(ptr, reply, fault) ==
    LET p    == producers[ptr]
        r    == destroySingleStationProducerOn(World, ptr, reply, fault)
        call == [RetNone EXCEPT !.op = "Destroy", !.seq = 1 - ret.seq, !.prod = ptr,
                                !.station = p.stationName, !.name = p.Name,
                                !.gone = (ptr \in destroyed)]
    IN  /\ ret' = [call EXCEPT !.destroyReqs = r.reqs, !.timeouts = r.timeouts, !.err = r.err,
                               !.reply = r.reply, !.timeout = r.timeout]
        /\ producersMap' = r.w.producersMap
        /\ stationUpdatesSubs' = r.w.stationUpdatesSubs
        /\ stationFunctionSubs' = r.w.stationFunctionSubs
        /\ destroyed' = r.w.destroyed

\* Producer.Destroy of a single-station producer
Destroy(ptr, reply, fault) ==
    /\ pc = "idle"
    /\ ptr \in 1..Len(producers)
    /\ ~producers[ptr].isMultiStationProducer
    /\ destroySingleStationProducer(ptr, reply, fault)
    /\ UNCHANGED <<producers, stationPartitions, clientsUpdatesSub, pc, paf, rrCalls>>
    /\ UNCHANGED concurrent

----------------------------------------------------------------------------
(* SchemaGate: payload normalisation, validation, dead-letter diversion *)

\* A payload: its Go type and its content
Msg(type, val) == [type |-> type, val |-> val]

\* json.Marshal of a string: the content between quotes
JsonString(v) == <<"\"">> \o v \o <<"\"">>

\* json.Marshal of a map or a struct: the object's text
JsonObject(v) == <<"{">> \o v \o <<"}">>

\* proto.Marshal of a protocol message: its wire bytes
ProtoMarshal(v) == <<"#">> \o v

\* The bytes a validator hands back when it re-encodes a payload
Reencoded(b) == <<"~">> \o b

\* Conn.getSchemaDetails: the schema details of a subscribed station
getSchemaDetails(subs, stationName) ==
    LET sn == getInternalName(stationName)
    IN  IF HasKey(subs, sn)
        THEN [ok |-> TRUE, schemaType |-> subs[sn].schemaType]
        ELSE [ok |-> FALSE, schemaType |-> ""]

\* A type switch that marshals a byte slice like any other value
originalMsgBytesMarshalled(msg) ==
    CASE msg.type \in {"bytes", "string"} -> [res |-> "ok", bytes |-> JsonString(msg.val)]
      [] msg.type \in {"map", "struct"}   -> [res |-> "ok", bytes |-> JsonObject(msg.val)]
      [] msg.type = "proto"               -> [res |-> "ok", bytes |-> ProtoMarshal(msg.val)]
      [] msg.type = "nil"                 -> [res |-> "panic", bytes |-> <<>>]
      [] OTHER                            -> [res |-> "unsupported", bytes |-> <<>>]

\* The type switch of Producer.validateMsg: "ok" with the bytes, "unsupported",
\* or "panic" (reflect.TypeOf(nil).Kind())
originalMsgBytes(msg) ==
    CASE msg.type = "bytes"  -> [res |-> "ok", bytes |-> msg.val]
      [] msg.type = "map"    -> [res |-> "ok", bytes |-> JsonObject(msg.val)]
      [] msg.type = "proto"  -> [res |-> "ok", bytes |-> ProtoMarshal(msg.val)]
      [] msg.type = "string" -> [res |-> "ok", bytes |-> JsonString(msg.val)]
      [] msg.type = "struct" -> [res |-> "ok", bytes |-> JsonObject(msg.val)]
      [] msg.type = "nil"    -> [res |-> "panic", bytes |-> <<>>]
      [] OTHER               -> [res |-> "unsupported", bytes |-> <<>>]

\* schemaDetails.validateMsg, the external validator: verdict is "ok" (the
\* bytes as they are), "reencode" (the bytes re-encoded), "failNil" (an error
\* and no bytes) or "failPartial" (an error and re-encoded bytes)
sdValidateMsg(bytes, verdict) ==
    CASE verdict = "ok"          -> [ok |-> TRUE,  nil |-> FALSE, bytes |-> bytes]
      [] verdict = "reencode"    -> [ok |-> TRUE,  nil |-> FALSE, bytes |-> Reencoded(bytes)]
      [] verdict = "failPartial" -> [ok |-> FALSE, nil |-> FALSE, bytes |-> Reencoded(bytes)]
      [] OTHER                   -> [ok |-> FALSE, nil |-> TRUE,  bytes |-> <<>>]

\* A diversion that does not look at the station's dead-letter flag
sendMsgToDlsUnflagged(cus, stationName, side) ==
    [dls |-> 1, notifs |-> IF cus.send_notification THEN 1 ELSE 0,
     dlsFailed |-> ~side.dls, notifFailed |-> cus.send_notification /\ ~side.notif]

\* Whether the broker connection takes the dead-letter record and the
\* notification of a rejected message
SidePublishes == [dls : BOOLEAN, notif : BOOLEAN]
SideOk == [dls |-> TRUE, notif |-> TRUE]

\* Producer.sendMsgToDls: the number of dead-letter records and of
\* notifications handed to the broker connection, and which of the two
\* publishes failed; the errors of both are dropped
sendMsgToDls(cus, stationName, side) ==
    LET internStation == getInternalName(stationName)
        toDls == HasKey(cus.StationSchemaverseToDlsMap, internStation)
                 /\ cus.StationSchemaverseToDlsMap[internStation]
    IN  IF toDls
        THEN [dls |-> 1, notifs |-> IF cus.send_notification THEN 1 ELSE 0,
              dlsFailed |-> ~side.dls,
              notifFailed |-> cus.send_notification /\ ~side.notif]
        ELSE [dls |-> 0, notifs |-> 0, dlsFailed |-> FALSE, notifFailed |-> FALSE]

\* A validateMsg that returns the error of a failed dead-letter or
\* notification publish
validateMsgSideErrors(p, msg, subs, cus, verdict, side) ==
    LET sd   == getSchemaDetails(subs, p.stationName)
        orig == originalMsgBytes(msg)
        v    == sdValidateMsg(orig.bytes, verdict)
        sent == sendMsgToDls(cus, p.stationName, side)
        none == [err |-> NoErr, panic |-> FALSE, data |-> <<>>, rejected |-> FALSE,
                 dls |-> 0, notifs |-> 0, dlsFailed |-> FALSE, notifFailed |-> FALSE,
                 dlsData |-> <<>>]
    IN  IF ~sd.ok
        THEN [none EXCEPT !.err = Err("errSchemaValidationFailed", <<>>)]
        ELSE IF orig.res = "panic"
        THEN [none EXCEPT !.panic = TRUE]
        ELSE IF orig.res = "unsupported"
        THEN [none EXCEPT !.err = Err("errUnsupportedMsgType", <<>>)]
        ELSE IF sd.schemaType # ""
        THEN IF ~v.ok
             THEN [none EXCEPT !.err = IF sent.dlsFailed \/ sent.notifFailed
                                       THEN Err("publish", <<>>)
                                       ELSE Err("errSchemaValidationFailed", <<>>),
                               !.rejected = TRUE, !.dls = sent.dls, !.notifs = sent.notifs,
                               !.dlsFailed = sent.dlsFailed,
                               !.notifFailed = sent.notifFailed,
                               !.dlsData = IF v.nil THEN orig.bytes ELSE v.bytes]
             ELSE [none EXCEPT !.data = v.bytes]
        ELSE [none EXCEPT !.data = orig.bytes]

\* Producer.validateMsg
validateMsg(p, msg, subs, cus, verdict, side) ==
    LET sd   == getSchemaDetails(subs, p.stationName)
        orig == originalMsgBytes(msg)
        v    == sdValidateMsg(orig.bytes, verdict)
        sent == sendMsgToDls(cus, p.stationName, side)
        none == [err |-> NoErr, panic |-> FALSE, data |-> <<>>, rejected |-> FALSE,
                 dls |-> 0, notifs |-> 0, dlsFailed |-> FALSE, notifFailed |-> FALSE,
                 dlsData |-> <<>>]
    IN  IF ~sd.ok
        THEN [none EXCEPT !.err = Err("errSchemaValidationFailed", <<>>)]
        ELSE IF orig.res = "panic"
        THEN [none EXCEPT !.panic = TRUE]
        ELSE IF orig.res = "unsupported"
        THEN [none EXCEPT !.err = Err("errUnsupportedMsgType", <<>>)]
        ELSE IF sd.schemaType # ""
        THEN IF ~v.ok
             THEN [none EXCEPT !.err = Err("errSchemaValidationFailed", <<>>),
                               !.rejected = TRUE, !.dls = sent.dls, !.notifs = sent.notifs,
                               !.dlsFailed = sent.dlsFailed,
                               !.notifFailed = sent.notifFailed,
                               !.dlsData = IF v.nil THEN orig.bytes ELSE v.bytes]
             ELSE [none EXCEPT !.data = v.bytes]
        ELSE [none EXCEPT !.data = orig.bytes]

----------------------------------------------------------------------------
(* PublishPipeline *)

\* getDefaultProduceOpts
DefaultAckWaitSec == 15
DefaultPartitionNumber == -1
DefaultAsyncProduce == TRUE

\* Options whose default is the synchronous publish
ProduceOptsSyncDefault(message, hdrs, syncOpt, key, number) ==
    [Message |-> message, AckWaitSec |-> DefaultAckWaitSec, MsgHeaders |-> hdrs,
     AsyncProduce |-> (syncOpt = "async"),
     ProducerPartitionKey |-> key, ProducerPartitionNumber |-> number]

\* The ProduceOpts after the options were applied: syncOpt is "default",
\* "async" (AsyncProduce()) or "sync" (SyncProduce())
ProduceOpts(message, hdrs, syncOpt, key, number) ==
    [Message |-> message, AckWaitSec |-> DefaultAckWaitSec, MsgHeaders |-> hdrs,
     AsyncProduce |-> CASE syncOpt = "sync" -> FALSE
                        [] syncOpt = "async" -> TRUE
                        [] OTHER -> DefaultAsyncProduce,
     ProducerPartitionKey |-> key, ProducerPartitionNumber |-> number]

\* RoundRobinProducerConsumerGenerator.Next: the element under the cursor; the
\* cursor advances by one modulo the partition count
NextPartition(pg) == pg[1].Partitions[pg[1].Current + 1]

NextCursor(pg) ==
    <<[pg[1] EXCEPT !.Current = (pg[1].Current + 1) % Len(pg[1].Partitions)]>>

\* Conn.GetPartitionFromKey: the partition a key maps to
KeyTable == [k \in {<<"k">>} |-> 2]

GetPartitionFromKey(key, list) ==
    IF key \in DOMAIN KeyTable /\ KeyTable[key] <= Len(list)
    THEN [ok |-> TRUE, n |-> list[KeyTable[key]]]
    ELSE [ok |-> FALSE, n |-> 0]

\* Conn.ValidatePartitionNumber
ValidatePartitionNumber(n, list) == \E i \in 1..Len(list) : list[i] = n

\* A selection that takes the generator's cursor for the partition
streamNameByCursor(p, opts, parts) ==
    LET sn == getInternalName(p.stationName)
        n  == IF p.PartitionGenerator = NilPG THEN 1
              ELSE p.PartitionGenerator[1].Current + 1
    IN  IF HasKey(parts, sn) /\ Len(parts[sn]) > 0
        THEN [res |-> "stream", name |-> StreamOf(sn, n), partition |-> n,
              rr |-> Len(parts[sn]) > 1, err |-> NoErr]
        ELSE [res |-> "stream", name |-> sn, partition |-> 0, rr |-> FALSE, err |-> NoErr]

\* The stream name of ProduceOpts.produce: "stream" with the name and the
\* partition, an error, or a panic (no partitions entry, no generator)
streamName(p, opts, parts) ==
    LET sn   == getInternalName(p.stationName)
        list == parts[sn]
        none == [res |-> "stream", name |-> sn, partition |-> 0, rr |-> FALSE, err |-> NoErr]
        byKey == GetPartitionFromKey(opts.ProducerPartitionKey, list)
    IN  IF ~HasKey(parts, sn) THEN [none EXCEPT !.res = "panic"]
        ELSE IF Len(list) = 1
        THEN [none EXCEPT !.name = StreamOf(sn, list[1]), !.partition = list[1]]
        ELSE IF Len(list) > 1
        THEN IF opts.ProducerPartitionNumber > 0 /\ opts.ProducerPartitionKey # <<>>
             THEN [none EXCEPT !.res = "error", !.err = Err("errBothPartitionNumAndKey", <<>>)]
             ELSE IF opts.ProducerPartitionKey # <<>>
             THEN IF ~byKey.ok
                  THEN [none EXCEPT !.res = "error", !.err = Err("errPartitionNotInKey", <<>>)]
                  ELSE [none EXCEPT !.name = StreamOf(sn, byKey.n), !.partition = byKey.n]
             ELSE IF opts.ProducerPartitionNumber > 0
             THEN IF ~ValidatePartitionNumber(opts.ProducerPartitionNumber, list)
                  THEN [none EXCEPT !.res = "error",
                                    !.err = memphisError(Err("errInvalidPartitionNumber", <<>>))]
                  ELSE [none EXCEPT !.name = StreamOf(sn, opts.ProducerPartitionNumber),
                                    !.partition = opts.ProducerPartitionNumber]
             ELSE IF p.PartitionGenerator = NilPG
             THEN [none EXCEPT !.res = "panic"]
             ELSE [none EXCEPT !.name = StreamOf(sn, NextPartition(p.PartitionGenerator)),
                               !.partition = NextPartition(p.PartitionGenerator),
                               !.rr = TRUE]
        ELSE none

\* A subject that is the final stage's whatever the functions map says
fullSubjectNameFinal(p, stream, fsubs) ==
    [res |-> "ok", subject |-> stream \o FinalSuffix]

\* The full subject name of ProduceOpts.produce: the stage suffix
fullSubjectName(p, stream, fsubs) ==
    LET sn     == getInternalName(p.stationName)
        parts  == Split(stream, "$")
        num    == Atoi(parts[2])
        fmap   == fsubs[sn].PartitionsFunctions
    IN  IF HasKey(fsubs, sn)
        THEN IF Len(parts) < 2 THEN [res |-> "panic", subject |-> <<>>]
             ELSE IF ~num.ok THEN [res |-> "error", subject |-> <<>>]
             ELSE IF HasKey(fmap, num.n)
             THEN [res |-> "ok", subject |-> stream \o FunctionsInfix \o Itoa(fmap[num.n])]
             ELSE [res |-> "ok", subject |-> stream \o FinalSuffix]
        ELSE [res |-> "ok", subject |-> stream \o FinalSuffix]

\* A PubAckFuture: "none", "pending", resolved "ok", or resolved "err" with
\* the broker's failure
Future(state, text) == [state |-> state, text |-> text]

\* Headers: the map of a Headers value, which is nil until New() made it
Headers(map, isNil) == [MsgHeaders |-> map, isNil |-> isNil]

\* The zero Headers value, and the value after New()
ZeroHeaders == Headers(EmptyMap, TRUE)
NewHeaders == Headers(EmptyMap, FALSE)

\* The keys of the system headers and the prefix reserved for them
ReservedPrefix == <<"$", "m", "e", "m", "p", "h", "i", "s">>
ConnectionIdKey == ReservedPrefix \o <<"_", "c", "o", "n", "n", "e", "c", "t", "i", "o", "n", "I", "d">>
ProducedByKey == ReservedPrefix \o <<"_", "p", "r", "o", "d", "u", "c", "e", "d", "B", "y">>

\* strings.HasPrefix
HasPrefix(s, prefix) ==
    Len(s) >= Len(prefix) /\ SubSeq(s, 1, Len(prefix)) = prefix

\* Headers.validateHeaderKey
validateHeaderKey(key) ==
    IF HasPrefix(key, ReservedPrefix) THEN Err("errInvalidHeaderKey", <<>>) ELSE NoErr

\* Headers.Add: the error, the headers after the call, and whether the write
\* to a nil map panicked
HeadersAdd(hdr, key, value) ==
    LET err == validateHeaderKey(key)
    IN  IF ~IsNil(err) THEN [err |-> memphisError(err), hdr |-> hdr, panic |-> FALSE]
        ELSE IF hdr.isNil THEN [err |-> NoErr, hdr |-> hdr, panic |-> TRUE]
        ELSE [err |-> NoErr, hdr |-> Headers(Put(hdr.MsgHeaders, key, <<value>>), FALSE),
              panic |-> FALSE]

\* System headers that give way to the caller's headers of the same key
injectHeadersIfAbsent(p, hdrs) ==
    LET h1 == IF HasKey(hdrs.MsgHeaders, ConnectionIdKey) THEN hdrs.MsgHeaders
              ELSE Put(hdrs.MsgHeaders, ConnectionIdKey, <<ConnId>>)
    IN  IF HasKey(h1, ProducedByKey) THEN h1 ELSE Put(h1, ProducedByKey, <<p.Name>>)

\* The first two statements of ProduceOpts.produce: the system headers are
\* written into the header map
injectHeaders(p, hdrs) ==
    Put(Put(hdrs.MsgHeaders, ConnectionIdKey, <<ConnId>>), ProducedByKey, <<p.Name>>)

\* ProduceOpts.produce up to the call of brokerPublish: what to publish, or
\* the error or panic that ends the call before
prepare(p, opts, subs, cus, parts, fsubs, verdict, side) ==
    IF opts.MsgHeaders.isNil
    THEN [res |-> "panic", err |-> NoErr, header |-> EmptyMap, data |-> <<>>,
          subject |-> <<>>, partition |-> 0, rr |-> FALSE,
          rejected |-> FALSE, dls |-> 0, notifs |-> 0,
          dlsFailed |-> FALSE, notifFailed |-> FALSE]
    ELSE With(validateMsg(p, opts.Message, subs, cus, verdict, side), LAMBDA vm :
    LET none == [res |-> "publish", err |-> NoErr,
                 header |-> injectHeaders(p, opts.MsgHeaders), data |-> <<>>,
                 subject |-> <<>>, partition |-> 0, rr |-> FALSE,
                 rejected |-> vm.rejected, dls |-> vm.dls, notifs |-> vm.notifs,
                 dlsFailed |-> vm.dlsFailed, notifFailed |-> vm.notifFailed]
    IN  IF vm.panic THEN [none EXCEPT !.res = "panic"]
        ELSE IF ~IsNil(vm.err)
        THEN [none EXCEPT !.res = "error", !.err = memphisError(vm.err)]
        ELSE With(streamName(p, opts, parts), LAMBDA strm :
        IF strm.res = "panic" THEN [none EXCEPT !.res = "panic"]
        ELSE IF strm.res = "error"
        THEN [none EXCEPT !.res = "error", !.err = strm.err]
        ELSE With(fullSubjectName(p, strm.name, fsubs), LAMBDA subj :
        IF subj.res = "panic"
        THEN [none EXCEPT !.res = "panic", !.rr = strm.rr, !.partition = strm.partition]
        ELSE IF subj.res = "error"
        THEN [none EXCEPT !.res = "error", !.err = memphisError(Err("atoi", <<>>)),
                          !.rr = strm.rr, !.partition = strm.partition]
        ELSE [none EXCEPT !.data = vm.data, !.subject = subj.subject,
                          !.partition = strm.partition, !.rr = strm.rr])))

\* The read lock of a station's functions map after ProduceOpts.produce: the
\* branch that returns the error of strconv.Atoi returns with the lock held
afterFunctionsLookup(fsubs, p, pre) ==
    LET sn == getInternalName(p.stationName)
    IN  IF pre.res = "error" /\ pre.err.kind = "atoi"
        THEN [fsubs EXCEPT ![sn].StationFunctionsMu.readers = @ + 1]
        ELSE fsubs

\* Producer.Produce on a single-station producer, to the return of an
\* asynchronous publish or to the select of a synchronous one.
\* verdict: the validator's; pubOk: brokerPublish accepts the message; side:
\* whether the dead-letter and the notification publish succeed.
Produce(ptr, message, hdrs, syncOpt, key, number, verdict, pubOk, side) ==
    LET p    == producers[ptr]
        opts == ProduceOpts(message, hdrs, syncOpt, key, number)
    IN  /\ pc = "idle"
        /\ ptr \in 1..Len(producers)
        /\ ~p.isMultiStationProducer
        /\ \E pre \in {prepare(p, opts, stationUpdatesSubs, clientsUpdatesSub,
                                stationPartitions, stationFunctionSubs, verdict, side)} :
           LET call == [RetNone EXCEPT !.op = "Produce", !.seq = 1 - ret.seq, !.prod = ptr,
                                        !.station = p.stationName, !.name = p.Name,
                                        !.msg = message, !.key = key, !.number = number,
                                        !.mode = syncOpt, !.async = opts.AsyncProduce,
                                        !.hdrs = hdrs.MsgHeaders, !.header = pre.header,
                                        !.rejected = pre.rejected, !.dls = pre.dls,
                                        !.notifs = pre.notifs, !.dlsFailed = pre.dlsFailed,
                                        !.notifFailed = pre.notifFailed,
                                        !.partition = pre.partition,
                                        !.rr = pre.rr]
           IN
           /\ IF pre.rr
              THEN /\ rrCalls[ptr] < MaxRR
                   /\ rrCalls' = [rrCalls EXCEPT ![ptr] = @ + 1]
                   /\ producers' = [producers EXCEPT ![ptr].PartitionGenerator = NextCursor(@)]
              ELSE UNCHANGED <<rrCalls, producers>>
           /\ CASE pre.res = "panic" ->
                     /\ pc' = "crashed"
                     /\ ret' = [call EXCEPT !.err = Err("panic", <<>>), !.returned = FALSE]
                     /\ paf' = paf
                [] pre.res = "error" ->
                     /\ pc' = pc
                     /\ ret' = [call EXCEPT !.err = pre.err]
                     /\ paf' = paf
                [] pre.res = "publish" /\ ~pubOk ->
                     /\ pc' = pc
                     /\ ret' = [call EXCEPT !.published = TRUE, !.subject = pre.subject,
                                            !.data = pre.data,
                                            !.err = memphisError(Err("publish", <<>>))]
                     /\ paf' = paf
                [] OTHER ->
                     /\ pc' = IF opts.AsyncProduce THEN "idle" ELSE "select"
                     /\ ret' = [call EXCEPT !.published = TRUE, !.accepted = TRUE,
                                            !.subject = pre.subject, !.data = pre.data,
                                            !.returned = opts.AsyncProduce]
                     /\ paf' = Future("pending", <<>>)
           /\ stationFunctionSubs' = afterFunctionsLookup(stationFunctionSubs, p, pre)
           /\ UNCHANGED <<producersMap, stationUpdatesSubs,
                          stationPartitions, clientsUpdatesSub, destroyed>>
           /\ UNCHANGED concurrent

\* A select that returns no error whichever signal resolved
ProduceReturnErrDropped ==
    /\ pc = "select"
    /\ paf.state \in {"ok", "err"}
    /\ pc' = "idle"
    /\ ret' = [ret EXCEPT !.returned = TRUE, !.err = NoErr]
    /\ UNCHANGED <<producers, producersMap, stationUpdatesSubs, stationFunctionSubs,
                   stationPartitions, clientsUpdatesSub, paf, destroyed, rrCalls>>
    /\ UNCHANGED concurrent

\* The select of ProduceOpts.produce: the synchronous publish returns once
\* the future resolved
ProduceReturn ==
    /\ pc = "select"
    /\ paf.state \in {"ok", "err"}
    /\ pc' = "idle"
    /\ ret' = [ret EXCEPT !.returned = TRUE,
                          !.err = IF paf.state = "ok" THEN NoErr
                                  ELSE memphisError(Err("ack", paf.text))]
    /\ UNCHANGED <<producers, producersMap, stationUpdatesSubs, stationFunctionSubs,
                   stationPartitions, clientsUpdatesSub, paf, destroyed, rrCalls>>
    /\ UNCHANGED concurrent

----------------------------------------------------------------------------
(* Multi-station producers *)

\* The producers of several stations that one connection holds at most
MaxFanouts == 1

\* Conn.createMultiStationProducer: the producer is neither announced to the
\* broker nor cached
createMultiStationProducer(stationNames, name, nameWithoutSuffix) ==
    LET p    == [NewProducer(stationNames, name, nameWithoutSuffix)
                    EXCEPT !.isMultiStationProducer = TRUE]
        call == [RetNone EXCEPT !.op = "CreateProducer", !.seq = 1 - ret.seq,
                                !.station = stationNames, !.name = name,
                                !.gen = (name # nameWithoutSuffix)]
    IN  /\ producers' = Append(producers, p)
        /\ rrCalls' = Append(rrCalls, 0)
        /\ ret' = [call EXCEPT !.prod = Len(producers) + 1]
        /\ UNCHANGED <<producersMap, stationUpdatesSubs, stationFunctionSubs,
                       stationPartitions, clientsUpdatesSub>>

\* Conn.CreateProducer with a station name that is a list of strings
CreateProducerMulti(stationNames, nameArg, genUniqueSuffix, hex) ==
    LET name == ToLower(nameArg)
    IN  /\ pc = "idle"
        /\ Cardinality({i \in 1..Len(producers) : producers[i].isMultiStationProducer})
               < MaxFanouts
        /\ createMultiStationProducer(
               stationNames,
               IF genUniqueSuffix THEN extendNameWithRandSuffix(name, hex) ELSE name,
               name)
        /\ UNCHANGED <<pc, paf, destroyed>>
        /\ UNCHANGED concurrent

\* ProduceOpts.produce of producer ptr on the connection state w, to the
\* return of an asynchronous publish: the state after and what the call did
produceOn(w, ptr, opts, verdict, pubOk) ==
    With(prepare(w.producers[ptr], opts, w.stationUpdatesSubs, w.clientsUpdatesSub,
                 w.stationPartitions, w.stationFunctionSubs, verdict, SideOk), LAMBDA pre :
    LET w0  == [w EXCEPT !.stationFunctionSubs =
                             afterFunctionsLookup(@, w.producers[ptr], pre)]
        w1  == IF pre.rr
               THEN [w0 EXCEPT !.rrCalls[ptr] = @ + 1,
                               !.producers[ptr].PartitionGenerator = NextCursor(@)]
               ELSE w0
        out == [w |-> w1, panic |-> FALSE, err |-> pre.err, reqs |-> 0,
                published |-> FALSE, accepted |-> FALSE,
                subject |-> pre.subject, header |-> pre.header, data |-> pre.data]
    IN  CASE pre.res = "panic" -> [out EXCEPT !.panic = TRUE]
          [] pre.res = "error" -> out
          [] pre.res = "publish" /\ ~pubOk ->
                 [out EXCEPT !.published = TRUE, !.err = memphisError(Err("publish", <<>>))]
          [] OTHER -> [out EXCEPT !.published = TRUE, !.accepted = TRUE])

\* Conn.getProducerFromCache: the pointer, 0 for errProducerNotInCache
getProducerFromCache(pm, stationName, name) ==
    getProducer(pm, KeyOf(getInternalName(stationName), ToLower(name)))

\* Conn.singleStationProduce on the connection state w: the cached producer
\* publishes, or a producer is created with the default options and publishes.
\* in: the creation reply and fault, should a creation be needed, the
\* validator's verdict and whether brokerPublish accepts.
singleStationProduceOn(w, stationName, name, opts, in) ==
    LET cp == getProducerFromCache(w.producersMap, stationName, name)
    IN  IF cp # 0 THEN produceOn(w, cp, opts, in.verdict, in.pubOk)
        ELSE With(createSingleStationProducerOn(w, stationName, ToLower(name), ToLower(name),
                                                in.reply, in.fault), LAMBDA c :
        IF ~IsNil(c.err)
        THEN [w |-> c.w, panic |-> FALSE, err |-> memphisError(c.err), reqs |-> c.reqs,
              published |-> FALSE, accepted |-> FALSE,
              subject |-> <<>>, header |-> EmptyMap, data |-> <<>>]
        ELSE [produceOn(c.w, c.prod, opts, in.verdict, in.pubOk) EXCEPT !.reqs = c.reqs])

\* A loop over the stations that goes on after a failure and returns the
\* first one at the end
RECURSIVE produceToMultiStationKeepGoing(_, _, _, _, _, _)
produceToMultiStationKeepGoing(w, p, i, opts, ins, log) ==
    IF i > Len(p.stationName)
    THEN [w |-> w, panic |-> FALSE, err |-> NoErr, log |-> log, failedAt |-> 0]
    ELSE With(singleStationProduceOn(w, p.stationName[i], p.Name, opts, ins[i]), LAMBDA r :
         With(produceToMultiStationKeepGoing(
                  r.w, p, i + 1, opts, ins,
                  IF r.published
                  THEN Append(log, [station |-> getInternalName(p.stationName[i]),
                                    subject |-> r.subject, accepted |-> r.accepted])
                  ELSE log), LAMBDA rest :
         IF IsNil(r.err) THEN rest
         ELSE [rest EXCEPT !.err = memphisError(r.err), !.failedAt = i]))

\* Producer.produceToMultiStation from station i of the list on: the state
\* after, the error, and the publishes handed to the broker, in order
RECURSIVE produceToMultiStationFrom(_, _, _, _, _, _)
produceToMultiStationFrom(w, p, i, opts, ins, log) ==
    IF i > Len(p.stationName)
    THEN [w |-> w, panic |-> FALSE, err |-> NoErr, log |-> log, failedAt |-> 0]
    ELSE With(singleStationProduceOn(w, p.stationName[i], p.Name, opts, ins[i]), LAMBDA r :
        LET log1 == IF r.published
                    THEN Append(log, [station |-> getInternalName(p.stationName[i]),
                                      subject |-> r.subject, accepted |-> r.accepted])
                    ELSE log
        IN  IF r.panic
            THEN [w |-> r.w, panic |-> TRUE, err |-> NoErr, log |-> log1, failedAt |-> i]
            ELSE IF ~IsNil(r.err)
            THEN [w |-> r.w, panic |-> FALSE, err |-> memphisError(r.err), log |-> log1,
                  failedAt |-> i]
            ELSE produceToMultiStationFrom(r.w, p, i + 1, opts, ins, log1))

\* Producer.Produce on a multi-station producer, with the default options
ProduceMulti(ptr, message, ins) ==
    LET p    == producers[ptr]
        opts == ProduceOpts(message, NewHeaders, "default", <<>>, DefaultPartitionNumber)
    IN  /\ pc = "idle"
        /\ ptr \in 1..Len(producers)
        /\ p.isMultiStationProducer
        /\ \E r \in {produceToMultiStationFrom(World, p, 1, opts, ins, <<>>)} :
            LET call == [RetNone EXCEPT !.op = "Produce", !.seq = 1 - ret.seq, !.prod = ptr,
                                        !.station = p.stationName, !.name = p.Name,
                                        !.msg = message, !.log = r.log, !.failedAt = r.failedAt,
                                        !.published = (r.log # <<>>)]
            IN
            /\ \A i \in 1..Len(r.w.rrCalls) : r.w.rrCalls[i] <= MaxRR
            /\ Becomes(r.w)
            /\ pc' = IF r.panic THEN "crashed" ELSE pc
            /\ ret' = IF r.panic THEN [call EXCEPT !.err = Err("panic", <<>>), !.returned = FALSE]
                      ELSE [call EXCEPT !.err = r.err]
            /\ paf' = IF \E k \in 1..Len(r.log) : r.log[k].accepted
                      THEN Future("pending", <<>>) ELSE paf
            /\ UNCHANGED concurrent

\* Producer.destroyMultiStationProducer from station i of the list on: the
\* state after, the error, and the destroys of sub-producers, in order
RECURSIVE destroyMultiStationProducerFrom(_, _, _, _, _)
destroyMultiStationProducerFrom(w, p, i, ins, log) ==
    LET producerKey == KeyOf(getInternalName(p.stationName[i]), p.realName)
        producer    == getProducer(w.producersMap, producerKey)
    IN  IF i > Len(p.stationName)
        THEN [w |-> w, err |-> NoErr, log |-> log, failedAt |-> 0]
        ELSE IF producer = 0
        THEN destroyMultiStationProducerFrom(w, p, i + 1, ins, log)
        ELSE With(destroySingleStationProducerOn(w, producer, ins[i].reply, ins[i].fault),
                  LAMBDA r :
            LET log1 == Append(log, [station |-> getInternalName(p.stationName[i]),
                                     prod |-> producer, reqs |-> r.reqs,
                                     failed |-> ~IsNil(r.err)])
            IN  IF ~IsNil(r.err)
                THEN [w |-> r.w, err |-> memphisError(r.err), log |-> log1, failedAt |-> i]
                ELSE destroyMultiStationProducerFrom(r.w, p, i + 1, ins, log1))

\* Producer.Destroy of a multi-station producer
DestroyMulti(ptr, ins) ==
    LET p    == producers[ptr]
        call == [RetNone EXCEPT !.op = "Destroy", !.seq = 1 - ret.seq, !.prod = ptr,
                                !.station = p.stationName, !.name = p.Name]
    IN  /\ pc = "idle"
        /\ ptr \in 1..Len(producers)
        /\ p.isMultiStationProducer
        /\ \E r \in {destroyMultiStationProducerFrom(World, p, 1, ins, <<>>)} :
            /\ Becomes(r.w)
            /\ ret' = [call EXCEPT !.err = r.err, !.log = r.log, !.failedAt = r.failedAt,
                                   !.destroyReqs =
                                       Cardinality({k \in 1..Len(r.log) : r.log[k].reqs > 0})]
            /\ UNCHANGED <<pc, paf>>
            /\ UNCHANGED concurrent

----------------------------------------------------------------------------
(* The broker: acknowledgments and metadata pushes *)

\* The broker acknowledges the pending publish
AckOk ==
    /\ pc # "crashed"
    /\ paf.state = "pending"
    /\ paf' = Future("ok", <<>>)
    /\ UNCHANGED <<producers, producersMap, stationUpdatesSubs, stationFunctionSubs,
                   stationPartitions, clientsUpdatesSub, pc, ret, destroyed, rrCalls>>
    /\ UNCHANGED concurrent

\* The broker reports the failure of the pending publish
AckErr(text) ==
    /\ pc # "crashed"
    /\ paf.state = "pending"
    /\ paf' = Future("err", text)
    /\ UNCHANGED <<producers, producersMap, stationUpdatesSubs, stationFunctionSubs,
                   stationPartitions, clientsUpdatesSub, pc, ret, destroyed, rrCalls>>
    /\ UNCHANGED concurrent

\* A schema update pushed to a subscribed station: Init activates a schema
\* (schemaType # ""), Drop deactivates it (schemaType = "")
SchemaUpdate(sn, schemaType) ==
    /\ pc # "crashed"
    /\ HasKey(stationUpdatesSubs, sn)
    /\ stationUpdatesSubs[sn].schemaType # schemaType
    /\ stationUpdatesSubs' = [stationUpdatesSubs EXCEPT ![sn].schemaType = schemaType]
    /\ UNCHANGED <<producers, producersMap, stationFunctionSubs, stationPartitions,
                   clientsUpdatesSub, pc, paf, ret, destroyed, rrCalls>>
    /\ UNCHANGED concurrent

\* A functions update pushed to a subscribed station replaces the map
FunctionsUpdate(sn, functions) ==
    /\ pc # "crashed"
    /\ HasKey(stationFunctionSubs, sn)
    /\ stationFunctionSubs[sn].PartitionsFunctions # functions
    /\ CanLock(stationFunctionSubs[sn].StationFunctionsMu)
    /\ stationFunctionSubs' = [stationFunctionSubs EXCEPT ![sn].PartitionsFunctions = functions]
    /\ UNCHANGED <<producers, producersMap, stationUpdatesSubs, stationPartitions,
                   clientsUpdatesSub, pc, paf, ret, destroyed, rrCalls>>
    /\ UNCHANGED concurrent

----------------------------------------------------------------------------
(* The inputs the specifications draw *)

PartitionLists == {<<>>, <<1>>, <<3, 1, 2>>}
FunctionMaps == {EmptyMap, [x \in {1} |-> 7]}
SchemaTypes == {"", "json"}
HexSuffixes == {<<"0", "f">>}

FailedReplies ==
    {TimeoutReply, RawReply(RejectText),
     CreationReply("json", <<>>, RejectText, "", <<>>, 0, EmptyMap, FALSE, FALSE)}

\* The name options of CreateProducer: no suffix, or a generated one
SuffixInputs == {<<FALSE, <<>>>>} \cup {<<TRUE, h>> : h \in HexSuffixes}

DestroyInputs ==
    {<<DestroyReply("timeout", <<>>), "none">>, <<DestroyReply("data", <<>>), "none">>,
     <<DestroyReply("data", NotExistText), "none">>, <<DestroyReply("data", RejectText), "none">>,
     <<DestroyReply("data", <<>>), "unsub">>, <<DestroyReply("data", <<>>), "funsub">>}

----------------------------------------------------------------------------
(* SpecLifecycle: the registry and the subscriptions over creations and      *)
(* destructions on several stations                                          *)

\* The producers the calls ask for: <<station, name, GenUniqueSuffix, hex>>.
\* Two of them are on the same station.
ProducerArgs ==
    {<<<<"S", "1">>, <<"A">>, g[1], g[2]>> : g \in SuffixInputs}
    \cup {<<<<"s", "2">>, <<"A">>, FALSE, <<>>>>}

LifecycleSnapshots ==
    {CreationReply("json", <<>>, <<>>, "json", <<3, 1, 2>>, 2, [x \in {1} |-> 7], TRUE, TRUE)}

\* A creation reply with the subscription of the call that fails, if any
LifecycleCreationInputs ==
    {<<r, "none">> : r \in LifecycleSnapshots \cup FailedReplies \cup {RawReply(<<>>)}}
    \cup {<<TimeoutReply, "sub">>}
    \cup {<<r, "fsub">> : r \in {x \in LifecycleSnapshots : x.StationVersion >= 2}}

NextLifecycle ==
    \/ \E a \in ProducerArgs, i \in LifecycleCreationInputs :
          CreateProducer(a[1], a[2], a[3], a[4], i[1], i[2])
    \/ \E ptr \in 1..MaxProducers, i \in DestroyInputs : Destroy(ptr, i[1], i[2])

SpecLifecycle == Init /\ [][NextLifecycle]_vars

----------------------------------------------------------------------------
(* Spec: the publish pipeline of the producer of one station (schema gate,   *)
(* partition selection, stage suffix) with the metadata the broker pushes    *)

PublishStation == <<"S", "1">>
PublishName == <<"A">>

\* The snapshots a creation reply carries
Snapshots ==
    {CreationReply("json", <<>>, <<>>, "", l, v, EmptyMap, nd[1], nd[2]) :
         l \in PartitionLists, v \in {1, 2},
         nd \in {<<FALSE, FALSE>>, <<TRUE, TRUE>>, <<TRUE, FALSE>>}}

Messages ==
    {Msg("bytes", <<"h", "i">>), Msg("string", <<"h", "i">>), Msg("map", <<"x">>)}
BadMessages == {Msg("int", <<>>), Msg("nil", <<>>)}

\* The headers of getDefaultProduceOpts
NoHeaders == NewHeaders
PartitionKeys == {<<>>, <<"k">>, <<"z">>}
PartitionNumbers == {DefaultPartitionNumber, 2, 4, 0, -2}
Verdicts == {"ok", "reencode", "failNil", "failPartial"}

\* The publish calls: <<message, mode, key, number, verdict, pubOk, side>>.
\* Each family varies some of the inputs and fixes the others.
ProduceInputs ==
    {<<m, "default", <<>>, DefaultPartitionNumber, v, TRUE, SideOk>> :
         m \in Messages, v \in Verdicts}
    \cup {<<m, "default", <<>>, DefaultPartitionNumber, "ok", TRUE, SideOk>> :
              m \in BadMessages}
    \cup {<<Msg("bytes", <<"h", "i">>), "default", k, n, v, TRUE, SideOk>> :
              k \in PartitionKeys, n \in PartitionNumbers, v \in {"ok", "failNil"}}
    \cup {<<Msg("bytes", <<"h", "i">>), "default", <<>>, DefaultPartitionNumber, "ok", FALSE,
             SideOk>>}
    \cup {<<Msg("bytes", <<"h", "i">>), "default", <<>>, DefaultPartitionNumber, v, TRUE, s>> :
              v \in {"failNil", "failPartial"}, s \in SidePublishes}

Next ==
    \/ \E r \in Snapshots : CreateProducer(PublishStation, PublishName, FALSE, <<>>, r, "none")
    \/ \E i \in ProduceInputs : Produce(1, i[1], NoHeaders, i[2], i[3], i[4], i[5], i[6], i[7])
    \/ \E t \in SchemaTypes : SchemaUpdate(getInternalName(PublishStation), t)
    \/ \E f \in FunctionMaps : FunctionsUpdate(getInternalName(PublishStation), f)

Spec == Init /\ [][Next]_vars

----------------------------------------------------------------------------
(* SpecAck: the acknowledgment of a publish, asynchronous and synchronous    *)

AckSnapshots ==
    {CreationReply("json", <<>>, <<>>, "", l, 1, EmptyMap, FALSE, FALSE) :
         l \in {<<>>, <<1>>}}

AckTexts == {RejectText, NotExistText}

AckProduceInputs ==
    {<<m, o, <<>>, DefaultPartitionNumber, "ok", ok>> :
         m \in {Msg("bytes", <<"h", "i">>), Msg("string", <<"h", "i">>)},
         o \in {"default", "async", "sync"}, ok \in BOOLEAN}

NextAck ==
    \/ \E r \in AckSnapshots : CreateProducer(PublishStation, PublishName, FALSE, <<>>, r, "none")
    \/ \E i \in AckProduceInputs : Produce(1, i[1], NoHeaders, i[2], i[3], i[4], i[5], i[6], SideOk)
    \/ ProduceReturn
    \/ AckOk
    \/ \E t \in AckTexts : AckErr(t)

SpecAck == Init /\ [][NextAck]_vars

\* The goroutine blocked in the select runs once a signal is ready
SpecAckFair == SpecAck /\ WF_vars(ProduceReturn)

----------------------------------------------------------------------------
(* SpecHeaders: the headers of a publish, as the caller may supply them      *)

HeaderSnapshots ==
    {CreationReply("json", <<>>, <<>>, "", l, 1, EmptyMap, FALSE, FALSE) : l \in PartitionLists}

HeaderKeys == {<<"h">>, ReservedPrefix \o <<"_", "x">>, ProducedByKey}

\* What the caller hands to Produce: no MsgHeaders option, or the option
\* with headers built by New() and Add(), with a map written directly, or
\* with the zero Headers value
HeaderInputs ==
    {NoHeaders, ZeroHeaders}
    \cup {HeadersAdd(NewHeaders, k, <<"v">>).hdr : k \in HeaderKeys}
    \cup {Headers([x \in {k} |-> <<<<"v">>>>], FALSE) : k \in HeaderKeys}

NextHeaders ==
    \/ \E r \in HeaderSnapshots : CreateProducer(PublishStation, PublishName, FALSE, <<>>, r, "none")
    \/ \E m \in {Msg("bytes", <<"h", "i">>), Msg("string", <<"h", "i">>)},
          h \in HeaderInputs, ok \in BOOLEAN :
          Produce(1, m, h, "default", <<>>, DefaultPartitionNumber, "ok", ok, SideOk)

SpecHeaders == Init /\ [][NextHeaders]_vars

----------------------------------------------------------------------------
(* SpecFanout: a producer of several stations, its publishes and its         *)
(* destruction                                                               *)

FanoutStations == <<<<"S", "1">>, <<"s", "2">>, <<"s", "3">>>>

FanoutSnapshot == CreationReply("json", <<>>, <<>>, "", <<1>>, 1, EmptyMap, FALSE, FALSE)

\* What happens at one station during a publish: all goes well, brokerPublish
\* fails, or the creation of the station's producer is rejected or times out
PublishOutcomes ==
    {[reply |-> FanoutSnapshot, fault |-> "none", verdict |-> "ok", pubOk |-> TRUE],
     [reply |-> FanoutSnapshot, fault |-> "none", verdict |-> "ok", pubOk |-> FALSE],
     [reply |-> CreationReply("json", <<>>, RejectText, "", <<>>, 0, EmptyMap, FALSE, FALSE),
      fault |-> "none", verdict |-> "ok", pubOk |-> TRUE],
     [reply |-> TimeoutReply, fault |-> "none", verdict |-> "ok", pubOk |-> TRUE]}

FanoutMessages == {Msg("bytes", <<"h", "i">>), Msg("string", <<"h", "i">>)}

\* What the broker replies to the destroy request of one station's producer
DestroyOutcomes ==
    {[reply |-> DestroyReply("data", <<>>), fault |-> "none"],
     [reply |-> DestroyReply("data", NotExistText), fault |-> "none"],
     [reply |-> DestroyReply("data", RejectText), fault |-> "none"],
     [reply |-> DestroyReply("timeout", <<>>), fault |-> "none"],
     [reply |-> DestroyReply("data", <<>>), fault |-> "unsub"]}

NextFanout ==
    \/ \E g \in SuffixInputs : CreateProducerMulti(FanoutStations, PublishName, g[1], g[2])
    \/ \E ptr \in 1..MaxFanouts, m \in FanoutMessages,
          ins \in [1..Len(FanoutStations) -> PublishOutcomes] :
          ProduceMulti(ptr, m, ins)
    \/ \E ptr \in 1..MaxFanouts, ins \in [1..Len(FanoutStations) -> DestroyOutcomes] :
          DestroyMulti(ptr, ins)

SpecFanout == Init /\ [][NextFanout]_vars

----------------------------------------------------------------------------
(* SpecSubscriptions: creations and destructions that all succeed *)

\* The producers the calls ask for, <<station, name>>: two names on a station
\* of version 2, one on a station of version 1
SubscriptionArgs ==
    {<<<<"S", "1">>, <<"A">>>>, <<<<"S", "1">>, <<"B">>>>, <<<<"s", "2">>, <<"A">>>>}

\* The version of a station, as its creation replies report it
StationVersionOf(stationName) == IF getInternalName(stationName) = <<"s", "1">> THEN 2 ELSE 1

\* The creation reply of a station: no error
SubscriptionSnapshot(stationName) ==
    CreationReply("json", <<>>, <<>>, "", <<1>>, StationVersionOf(stationName),
                  EmptyMap, FALSE, FALSE)

\* The destroy replies that Conn.destroy takes for a success
DestroyedReplies == {DestroyReply("data", <<>>), DestroyReply("data", NotExistText)}

NextSubscriptions ==
    \/ \E a \in SubscriptionArgs :
          CreateProducer(a[1], a[2], FALSE, <<>>, SubscriptionSnapshot(a[1]), "none")
    \/ \E ptr \in 1..MaxProducers, r \in DestroyedReplies : Destroy(ptr, r, "none")

SpecSubscriptions == Init /\ [][NextSubscriptions]_vars

----------------------------------------------------------------------------
(* SpecRetry: lifecycle calls whose requests time out *)

\* The requests of a call that time out before a reply arrives: none, some,
\* one less than the attempts, all the attempts
TimeoutCounts == {0, 2, DefaultTimeoutRetry - 1, DefaultTimeoutRetry}

RetryArgs == {<<<<"S", "1">>, <<"A">>>>, <<<<"s", "2">>, <<"A">>>>}

RetryCreationReplies ==
    {AfterTimeouts(n, r) : n \in TimeoutCounts, r \in LifecycleSnapshots \cup FailedReplies}

RetryDestroyReplies ==
    {AfterTimeouts(n, i[1]) : n \in TimeoutCounts,
                              i \in {x \in DestroyInputs : x[2] = "none"}}

NextRetry ==
    \/ \E a \in RetryArgs, r \in RetryCreationReplies :
          CreateProducer(a[1], a[2], FALSE, <<>>, r, "none")
    \/ \E ptr \in 1..MaxProducers, r \in RetryDestroyReplies : Destroy(ptr, r, "none")

SpecRetry == Init /\ [][NextRetry]_vars

----------------------------------------------------------------------------
(* SpecIdentity: station and producer names that contain the separator of   *)
(* the registry key                                                          *)

\* The producers the calls ask for, <<station, name>>
IdentityArgs ==
    {<<<<"a", "_", "b">>, <<"c">>>>, <<<<"a">>, <<"b", "_", "c">>>>,
     <<<<"a">>, <<"c">>>>, <<<<"b">>, <<"c">>>>}

IdentityReplies == LifecycleSnapshots \cup {TimeoutReply}

NextIdentity ==
    \/ \E a \in IdentityArgs, r \in IdentityReplies :
          CreateProducer(a[1], a[2], FALSE, <<>>, r, "none")
    \/ \E ptr \in 1..MaxProducers, i \in DestroyInputs : Destroy(ptr, i[1], i[2])

SpecIdentity == Init /\ [][NextIdentity]_vars

----------------------------------------------------------------------------
(* Properties *)

\* The step is the API call op: ret' is what the call did
Called(op) == ret'.seq # ret.seq /\ ret'.op = op

\* The producers ever returned for station and name, as the registry keys them
Returned(stationName, name) ==
    {ptr \in 1..Len(producers) :
         /\ getInternalName(producers[ptr].stationName) = getInternalName(stationName)
         /\ producers[ptr].Name = name}

C2_DuplicateNameFails ==
    [][(/\ Called("CreateProducer")
        /\ Returned(ret'.station, ret'.name) \ destroyed # {})
           => ~IsNil(ret'.err)]_vars

\* C7: a Destroy whose request the broker answered returns no error when
\* the reply contains "not exist", and the reply as the error when the reply
\* is any other non-empty text.
C7_DestroyNotExistIsSuccess ==
    (ret.op = "Destroy" /\ ret.destroyReqs = 1 /\ ~ret.timeout) =>
        /\ ret.reply = NotExistText => IsNil(ret.err)
        /\ ret.reply = RejectText => (ret.err.kind = "broker" /\ ret.err.text = RejectText)
        /\ ret.reply = <<>> => IsNil(ret.err)

\* The Destroy of a producer that was destroyed before got "not exist" back
\* and returned no error
C7_Witness ==
    /\ ret.op = "Destroy" /\ ret.gone /\ ret.destroyReqs = 1
    /\ ret.reply = NotExistText
    /\ IsNil(ret.err)

\* The station's metadata as the connection holds it
SchemaTypeOf(sn) == IF HasKey(stationUpdatesSubs, sn) THEN stationUpdatesSubs[sn].schemaType ELSE ""

PartitionsOf(sn) == IF HasKey(stationPartitions, sn) THEN stationPartitions[sn] ELSE <<>>

FunctionsOf(sn) ==
    IF HasKey(stationFunctionSubs, sn) THEN stationFunctionSubs[sn].PartitionsFunctions
    ELSE EmptyMap

DlsFlagOf(sn) ==
    /\ HasKey(clientsUpdatesSub.StationSchemaverseToDlsMap, sn)
    /\ clientsUpdatesSub.StationSchemaverseToDlsMap[sn]

\* The subjects of the publish station, written out
StationText == <<"s", "1">>
PartitionText == [n \in 1..3 |-> <<<<"1">>, <<"2">>, <<"3">>>>[n]]
FunctionText == [id \in {7} |-> <<"7">>]
FinalText == <<".", "f", "i", "n", "a", "l">>
FunctionsText == <<".", "f", "u", "n", "c", "t", "i", "o", "n", "s", ".">>

SubjectPrefix(n) == StationText \o <<"$">> \o PartitionText[n]

C4_KeyAndNumberConflict ==
    (ret.op = "Produce" /\ ret.key # <<>> /\ ret.number # DefaultPartitionNumber) =>
        /\ ret.err.kind = "errBothPartitionNumAndKey"
        /\ ~ret.published
        /\ ret.dls = 0
        /\ ret.notifs = 0

\* C5: on a station with no active schema, the payload of a raw-bytes
\* publish is, byte for byte, the data of the message handed to the
\* data-plane publish.
C5_RawBytesUnchanged ==
    [][(/\ Called("Produce")
        /\ ret'.msg.type = "bytes"
        /\ HasKey(stationUpdatesSubs, StationText)
        /\ SchemaTypeOf(StationText) = ""
        /\ ret'.published)
           => ret'.data = ret'.msg.val]_vars

\* A raw-bytes publish on a station without schema was handed over
C5_Witness ==
    /\ ret.op = "Produce" /\ ret.msg = Msg("bytes", <<"h", "i">>)
    /\ SchemaTypeOf(StationText) = ""
    /\ ret.published /\ ret.accepted
    /\ ret.data = <<"h", "i">>

\* C6: when the station has an active schema and the validator rejects
\* the payload, the publish sends one dead-letter record if the station's
\* dead-letter flag is set and none if it is not, sends no data-plane
\* message, and returns the schema validation error.
C6_RejectedPayloadDiverted ==
    [][(/\ Called("Produce")
        /\ SchemaTypeOf(StationText) # ""
        /\ ret'.msg \in Messages
        /\ ret'.rejected)
           => /\ ret'.dls = IF DlsFlagOf(StationText) THEN 1 ELSE 0
              /\ ~ret'.published
              /\ ret'.err.kind = "errSchemaValidationFailed"]_vars

\* A rejected payload went to the dead-letter station, and not to the
\* data plane
C6_Witness ==
    /\ ret.op = "Produce" /\ ret.rejected
    /\ SchemaTypeOf(StationText) # ""
    /\ DlsFlagOf(StationText)
    /\ ret.dls = 1 /\ ~ret.published

\* C10: the subject of a publish to the resolved partition p is
\* station$p.functions.<id> when the functions map, as it is at the publish,
\* gives p the function id, and station$p.final when it gives p none.
C10_StageSuffixFromFunctionsMap ==
    [][(/\ Called("Produce")
        /\ ret'.published
        /\ Len(PartitionsOf(StationText)) > 0)
           => LET p == ret'.partition
                  f == FunctionsOf(StationText)
              IN  /\ p \in DOMAIN PartitionText
                  /\ ret'.subject =
                         IF p \in DOMAIN f
                         THEN SubjectPrefix(p) \o FunctionsText \o FunctionText[f[p]]
                         ELSE SubjectPrefix(p) \o FinalText]_vars

\* A publish to partition 1, which the functions map gives function 7
C10_Witness ==
    /\ ret.op = "Produce" /\ ret.published /\ ret.partition = 1
    /\ FunctionsOf(StationText) = [x \in {1} |-> 7]
    /\ ret.subject = SubjectPrefix(1) \o FunctionsText \o FunctionText[7]

\* C8: a publish in the asynchronous mode, which is the default, has
\* returned without error once brokerPublish accepted the message, whatever
\* the acknowledgment does then: it never waits in the select, and an
\* acknowledgment failure that resolves later does not change what it returned.
C8_AsyncReturnsOnAcceptance ==
    (ret.op = "Produce" /\ ret.mode \in {"default", "async"} /\ ret.accepted) =>
        /\ ret.returned
        /\ IsNil(ret.err)
        /\ pc = "idle"

\* The acknowledgment of a default-mode publish failed after the publish
\* had returned without error
C8_Witness ==
    /\ ret.op = "Produce" /\ ret.mode = "default" /\ ret.accepted
    /\ ret.returned /\ IsNil(ret.err)
    /\ paf.state = "err"

\* A synchronous publish that brokerPublish accepted
SyncAccepted == ret.op = "Produce" /\ ret.mode = "sync" /\ ret.accepted

\* C9: an accepted synchronous publish has not returned while neither
\* acknowledgment signal resolved; when it has returned, one signal resolved,
\* and it returned no error if that is the success signal and the broker's
\* failure if that is the failure signal; and once a signal resolved, the
\* publish returns.
C9_SyncReturnsOnResolution ==
    /\ [](SyncAccepted =>
             /\ paf.state = "pending" => (~ret.returned /\ pc = "select")
             /\ ret.returned =>
                    /\ paf.state \in {"ok", "err"}
                    /\ IsNil(ret.err) <=> paf.state = "ok"
                    /\ paf.state = "err" =>
                           (ret.err.kind = "ack" /\ ret.err.text = paf.text))
    /\ ((SyncAccepted /\ paf.state \in {"ok", "err"}) ~> (SyncAccepted /\ ret.returned))

\* A synchronous publish returned the broker's failure
C9_Witness ==
    /\ SyncAccepted /\ ret.returned
    /\ paf.state = "err"
    /\ ret.err.kind = "ack" /\ ret.err.text = paf.text

\* C11: a Produce call whose caller-supplied headers hold a key with the
\* reserved prefix returns the reserved-header-key error and publishes
\* nothing.
C11_ReservedHeaderKeyRejected ==
    (/\ ret.op = "Produce"
     /\ \E k \in DOMAIN ret.hdrs : HasPrefix(k, ReservedPrefix))
        => /\ ret.err.kind = "errInvalidHeaderKey"
           /\ ~ret.published

\* C20: every message handed to brokerPublish carries the connection's id
\* under $memphis_connectionId and the producer's name under
\* $memphis_producedBy, whatever headers the caller supplied.
C20_SystemHeadersInjected ==
    (ret.op = "Produce" /\ ret.published) =>
        /\ HasKey(ret.header, ConnectionIdKey)
        /\ ret.header[ConnectionIdKey] = <<ConnId>>
        /\ HasKey(ret.header, ProducedByKey)
        /\ ret.header[ProducedByKey] = <<producers[ret.prod].Name>>

\* A published message whose caller had written $memphis_producedBy itself
C20_Witness ==
    /\ ret.op = "Produce" /\ ret.published
    /\ HasKey(ret.hdrs, ProducedByKey)
    /\ ret.hdrs[ProducedByKey] = <<<<"v">>>>
    /\ ret.header[ProducedByKey] = <<<<"a">>>>

\* The registry key of producer ptr, as CreateProducer looks it up
RegistryKey(ptr) ==
    KeyOf(getInternalName(producers[ptr].stationName), producers[ptr].Name)

\* C12: after a Destroy of a single-station producer returned success the
\* registry holds no entry for its station and name, and a later
\* CreateProducer with that station and name does not return the destroyed
\* instance but sends a creation request.
C12_DestroyRemovesRegistryEntry ==
    [][/\ (Called("Destroy") /\ IsNil(ret'.err))
           => ~HasKey(producersMap', RegistryKey(ret'.prod))
       /\ (/\ Called("CreateProducer")
           /\ \E d \in destroyed :
                  RegistryKey(d) = KeyOf(getInternalName(ret'.station), ret'.name))
           => (ret'.prod \notin destroyed /\ ~ret'.cached)]_vars

----------------------------------------------------------------------------
(* Multi-station producers: SpecFanout *)

\* The last call was a Produce on a multi-station producer
FanoutProduced ==
    /\ ret.op = "Produce"
    /\ ret.prod \in 1..Len(producers)
    /\ producers[ret.prod].isMultiStationProducer

\* The first n entries of the publish log are the publishes the broker
\* accepted for the first n stations of the list, in list order
PublishedInOrder(n) ==
    \A k \in 1..n :
        /\ ret.log[k].station = getInternalName(ret.station[k])
        /\ ret.log[k].accepted

\* C13: a Produce on a multi-station producer publishes to the stations in
\* list order; when the publish to station i fails, the call returns an
\* error, the publishes to the stations before i were handed to the broker
\* and accepted, and nothing is published to the stations after i; without a
\* failure every station gets the message and the call returns nil.
C13_FanoutAbortsAtFirstFailure ==
    FanoutProduced =>
        LET n == Len(ret.station)
            i == ret.failedAt
        IN  IF i = 0
            THEN /\ IsNil(ret.err)
                 /\ Len(ret.log) = n
                 /\ PublishedInOrder(n)
            ELSE /\ ~IsNil(ret.err)
                 /\ Len(ret.log) \in {i - 1, i}
                 /\ PublishedInOrder(i - 1)
                 /\ Len(ret.log) = i =>
                        /\ ret.log[i].station = getInternalName(ret.station[i])
                        /\ ~ret.log[i].accepted

\* The publish to the second of three stations failed after the first
\* station got the message
C13_Witness ==
    /\ FanoutProduced
    /\ Len(ret.station) = 3
    /\ ret.failedAt = 2
    /\ ret.log # <<>>
    /\ ret.log[1].accepted
    /\ ~IsNil(ret.err)

\* The registry holds a sub-producer of multi-station producer ptr for the
\* k-th station of its list: the entry singleStationProduce cached
SubProducerPresent(ptr, k) ==
    HasKey(producersMap,
           KeyOf(getInternalName(producers[ptr].stationName[k]), producers[ptr].Name))

\* C14: Destroy of a multi-station producer attempts the destroy of every
\* sub-producer that is in the registry, also after the destroy of an earlier
\* one failed, and returns an error iff one of the destroys failed.
C14_FanoutDestroyReachesEverySubProducer ==
    [][(/\ Called("Destroy")
        /\ ret'.prod \in 1..Len(producers)
        /\ producers[ret'.prod].isMultiStationProducer)
           => /\ \A k \in 1..Len(producers[ret'.prod].stationName) :
                     SubProducerPresent(ret'.prod, k)
                         => \E j \in 1..Len(ret'.log) :
                                ret'.log[j].station =
                                    getInternalName(producers[ret'.prod].stationName[k])
              /\ IsNil(ret'.err) <=> (\A j \in 1..Len(ret'.log) : ~ret'.log[j].failed)]_vars

----------------------------------------------------------------------------
(* The subscriptions to the metadata of a station: SpecSubscriptions *)

\* A single-station producer of the station with internal name sn was
\* created and not destroyed
LiveProducerOf(sn) ==
    \E i \in 1..Len(producers) :
        /\ i \notin destroyed
        /\ ~producers[i].isMultiStationProducer
        /\ getInternalName(producers[i].stationName) = sn

\* The connection listens to the schema updates and to the functions updates
\* of the station
Subscribed(sn) == HasKey(stationUpdatesSubs, sn) /\ HasKey(stationFunctionSubs, sn)

\* C15: after successful creations and destructions the connection is
\* subscribed to the schema updates and the functions updates of a station
\* iff a producer created for the station has not been destroyed.
C15_SubscribedIffLiveProducer ==
    \A a \in SubscriptionArgs :
        Subscribed(getInternalName(a[1])) <=> LiveProducerOf(getInternalName(a[1]))

----------------------------------------------------------------------------
(* The requests of a lifecycle call: SpecRetry *)

\* The lifecycle requests the last call sent
RequestsSent == ret.createReqs + ret.destroyReqs

\* The last call got a reply that carries a rejection of the broker
RejectionReceived ==
    /\ ret.reply # <<>>
    /\ ~(ret.op = "Destroy" /\ Contains(ret.reply, NotExist))

----------------------------------------------------------------------------
(* Payloads outside the accepted set: Spec *)

\* The payload of the last Produce is none of []byte, map, proto message,
\* string or struct
UnsupportedPayload == ret.msg.type \in {"nil", "int"}

\* C17: a Produce with a payload outside the accepted set, a nil payload
\* included, returns errUnsupportedMsgType and publishes nothing.
C17_UnsupportedPayloadRejected ==
    (ret.op = "Produce" /\ UnsupportedPayload) =>
        /\ ret.returned
        /\ ret.err.kind = "errUnsupportedMsgType"
        /\ ~ret.published

----------------------------------------------------------------------------
(* Failures of the dead-letter and the notification publish: Spec *)

\* C18: a Produce whose payload the validator rejects returns
\* errSchemaValidationFailed, and publishes nothing to the station, whether
\* the dead-letter publish and the notification publish succeed or fail.
C18_SidePublishFailuresSwallowed ==
    (ret.op = "Produce" /\ ret.rejected) =>
        /\ ret.returned
        /\ ret.err.kind = "errSchemaValidationFailed"
        /\ ~ret.published

\* A rejected payload whose dead-letter publish and notification publish
\* both failed
C18_Witness ==
    /\ ret.op = "Produce" /\ ret.rejected
    /\ ret.dls = 1 /\ ret.dlsFailed
    /\ ret.notifs = 1 /\ ret.notifFailed
    /\ ret.err.kind = "errSchemaValidationFailed"

----------------------------------------------------------------------------
(* The identity of a producer in the registry: SpecIdentity *)

\* C19: a CreateProducer for a station and name for which no producer was
\* returned before does not return a cached instance, that is the instance
\* of another pair: it sends its own creation request, and it succeeds when
\* the broker accepts the request.
C19_IdentityPerStationAndName ==
    [][(/\ Called("CreateProducer")
        /\ Returned(ret'.station, ret'.name) = {})
           => /\ ~ret'.cached
              /\ ret'.createReqs > 0
              /\ (ret'.reply = <<>> /\ ~ret'.timeout) => IsNil(ret'.err)]_vars

----------------------------------------------------------------------------
(* The partition generator of a created producer: Spec *)

\* The last call created a producer from a snapshot of the broker
CreatedFromSnapshot ==
    /\ ret.op = "CreateProducer" /\ IsNil(ret.err) /\ ~ret.cached
    /\ HasKey(stationPartitions, getInternalName(ret.station))

\* C21 as stated: a created producer holds a partition generator iff the
\* partition list of its station has more than one partition.
C21_SelectorIffSeveralPartitions ==
    CreatedFromSnapshot =>
        (producers[ret.prod].PartitionGenerator # NilPG
            <=> Len(PartitionsOf(getInternalName(ret.station))) > 1)

\* C21, amended: a created producer holds a partition generator iff the
\* partition list of its station is not empty; a station with exactly one
\* partition gets a generator over that one partition.
C21_SelectorIffAnyPartition ==
    CreatedFromSnapshot =>
        /\ producers[ret.prod].PartitionGenerator # NilPG
               <=> Len(PartitionsOf(getInternalName(ret.station))) >= 1
        /\ producers[ret.prod].PartitionGenerator # NilPG =>
               producers[ret.prod].PartitionGenerator =
                   newRoundRobinGenerator(PartitionsOf(getInternalName(ret.station)))

\* A producer was created on a station with exactly one partition
C21_Witness ==
    /\ CreatedFromSnapshot
    /\ Len(PartitionsOf(getInternalName(ret.station))) = 1
    /\ producers[ret.prod].PartitionGenerator # NilPG

----------------------------------------------------------------------------
(* Explicit partition selection: Spec *)

\* The last call was a Produce on a station with more than one partition
\* whose payload passed the schema gate
SelectsPartition ==
    /\ ret.op = "Produce"
    /\ Len(PartitionsOf(getInternalName(ret.station))) > 1
    /\ ~ret.rejected
    /\ ret.msg.type \notin {"nil", "int"}

\* The last publish was handed to the broker for partition n
PublishedTo(n) ==
    /\ ret.published
    /\ ret.partition = n
    /\ HasPrefix(ret.subject, SubjectPrefix(n))

\* C22: on a station with more than one partition a publish with a partition
\* key goes to the partition the key maps to, or fails with
\* errPartitionNotInKey when the key has no mapping; a publish with a
\* partition number, that is any number but the default of the options, goes
\* to that partition when it is in the station's list and fails with
\* errInvalidPartitionNumber otherwise; a failing call publishes nothing.
C22_ExplicitPartitionSelection ==
    LET list  == PartitionsOf(getInternalName(ret.station))
        byKey == GetPartitionFromKey(ret.key, list)
    IN  /\ (SelectsPartition /\ ret.key # <<>> /\ ret.number = DefaultPartitionNumber) =>
               IF byKey.ok THEN PublishedTo(byKey.n)
               ELSE ret.err.kind = "errPartitionNotInKey" /\ ~ret.published
        /\ (SelectsPartition /\ ret.key = <<>> /\ ret.number # DefaultPartitionNumber) =>
               IF ValidatePartitionNumber(ret.number, list) THEN PublishedTo(ret.number)
               ELSE ret.err.kind = "errInvalidPartitionNumber" /\ ~ret.published

----------------------------------------------------------------------------
(* The subject on stations with no partition and with one partition: Spec *)

\* The last call was a Produce whose payload passed the schema gate, on a
\* station with n partitions
ProducedOnPartitions(n) ==
    /\ ret.op = "Produce"
    /\ HasKey(stationPartitions, getInternalName(ret.station))
    /\ Len(PartitionsOf(getInternalName(ret.station))) = n
    /\ ~ret.rejected
    /\ ret.msg.type \notin {"nil", "int"}

\* C23: on a station without partitions a publish goes to the subject
\* <station>.final, and on a station with the one partition p to a subject
\* that starts with <station>$p; with a functions map registered for the
\* station the publish completes as well.
C23_SubjectByPartitionCount ==
    /\ ProducedOnPartitions(0) =>
           /\ ret.err.kind # "panic"
           /\ ret.published
           /\ ret.subject = StationText \o FinalText
    /\ ProducedOnPartitions(1) =>
           /\ ret.err.kind # "panic"
           /\ ret.published
           /\ HasPrefix(ret.subject,
                        SubjectPrefix(PartitionsOf(getInternalName(ret.station))[1]))

----------------------------------------------------------------------------
(* A failed creation request: SpecLifecycle *)

\* The step is a CreateProducer whose creation request timed out or was
\* answered with an error
CreationRequestFailed ==
    /\ Called("CreateProducer")
    /\ ret'.createReqs > 0
    /\ ret'.timeout \/ ret'.reply # <<>>

----------------------------------------------------------------------------
(* The operator notification of a rejected payload: Spec *)

\* C27: when the validator rejects a payload, one notification is published
\* if the cluster notification flag is enabled, whether the station's
\* dead-letter flag is set or not, and none if the flag is disabled.
C27_NotificationFollowsClusterFlag ==
    [][(/\ Called("Produce")
        /\ SchemaTypeOf(StationText) # ""
        /\ ret'.msg \in Messages
        /\ ret'.rejected)
           => ret'.notifs = IF clientsUpdatesSub.send_notification THEN 1 ELSE 0]_vars

----------------------------------------------------------------------------
(* A failed destroy request: SpecLifecycle *)

\* C28: a Destroy of a single-station producer whose destroy request timed
\* out or was answered with an error leaves the registry and the schema and
\* functions subscriptions of the station, reference counts included, as
\* they were before the call.
C28_FailedDestroyLeavesStateAsBefore ==
    [][(/\ Called("Destroy")
        /\ ret'.destroyReqs > 0
        /\ ~IsNil(ret'.err))
           => /\ producersMap' = producersMap
              /\ stationUpdatesSubs' = stationUpdatesSubs
              /\ stationFunctionSubs' = stationFunctionSubs]_vars

----------------------------------------------------------------------------
(* The round-robin cursor as a frame condition: Spec *)

\* The step is a Produce that moved the cursor of its producer's generator
CursorMoved ==
    /\ Called("Produce")
    /\ producers'[ret'.prod].PartitionGenerator # producers[ret'.prod].PartitionGenerator

\* C30: the cursor of a producer's round-robin generator is moved only by a
\* Produce that sets neither a partition key nor a partition number and that
\* reaches the partition selection (its payload was accepted); every other
\* Produce leaves the cursor where it was.
C30_CursorMovedOnlyByUnkeyedPublish ==
    [][CursorMoved =>
          /\ ret'.key = <<>>
          /\ ret'.number = DefaultPartitionNumber
          /\ ~ret'.rejected
          /\ ret'.rr
          /\ ret'.partition = NextPartition(producers[ret'.prod].PartitionGenerator)]_vars

----------------------------------------------------------------------------
(* Concurrent callers: createSingleStationProducer, handleCreationResp and *)
(* ProduceOpts.produce statement by statement, each goroutine at the       *)
(* statement it executes next; the dispatch goroutine applies the          *)
(* functions updates                                                       *)

\* The calls one goroutine makes at most
MaxCalls == 2

\* The stations of the concurrent callers, their producer name, and the
\* snapshot the broker answers a creation request with
ConcurrentStations == {<<"s", "1">>, <<"a", "$", "b">>}
ConcurrentName == <<"a">>
ConcurrentSnapshot ==
    CreationReply("json", <<>>, <<>>, "json", <<1, 2>>, 2, EmptyMap, TRUE, TRUE)
ConcurrentOpts ==
    ProduceOpts(Msg("bytes", <<"h", "i">>), NewHeaders, "default", <<>>, DefaultPartitionNumber)

At(g, loc) == goroutines[g].at = loc

\* The goroutine g is at loc next, its fields as in rec
Goes(g, rec, loc) == goroutines' = [goroutines EXCEPT ![g] = [rec EXCEPT !.at = loc]]

\* The call of goroutine g returns
Returns(g, rec) == Goes(g, rec, "idle")

\* Conn.CreateProducer called by goroutine g: createSingleStationProducer
\* up to the registry lookup
CallCreateProducer(g, stationName, name) ==
    /\ pc # "crashed"
    /\ At(g, "idle")
    /\ goroutines[g].calls < MaxCalls
    /\ Goes(g, [goroutines[g] EXCEPT !.op = "CreateProducer", !.station = stationName,
                                     !.name = name, !.calls = @ + 1, !.reqs = 0,
                                     !.prod = 0, !.new = 0, !.err = FALSE],
            "getProducer")
    /\ UNCHANGED <<producers, producersMap, stationUpdatesSubs, stationFunctionSubs,
                   stationPartitions, clientsUpdatesSub, pc, paf, ret, destroyed, rrCalls,
                   stationUpdatesMu, sdkClientsUpdatesMu>>

\* createSingleStationProducer, the registry lookup: a hit returns the cached
\* producer, a miss makes the Producer object
GetProducer(g) ==
    LET me == goroutines[g]
        cp == getProducer(producersMap, KeyOf(getInternalName(me.station), me.name))
    IN  /\ pc # "crashed"
        /\ At(g, "getProducer")
        /\ IF cp # 0
           THEN /\ Returns(g, [me EXCEPT !.prod = cp])
                /\ UNCHANGED <<producers, rrCalls>>
           ELSE /\ Len(producers) < MaxProducers
                /\ producers' = Append(producers, NewProducer(me.station, me.name, me.name))
                /\ rrCalls' = Append(rrCalls, 0)
                /\ Goes(g, [me EXCEPT !.new = Len(producers) + 1], "listenToSchemaUpdates")
        /\ UNCHANGED <<producersMap, stationUpdatesSubs, stationFunctionSubs,
                       stationPartitions, clientsUpdatesSub, pc, paf, ret, destroyed,
                       stationUpdatesMu, sdkClientsUpdatesMu>>

\* createSingleStationProducer, listenToSchemaUpdates: the listener takes
\* the write lock of the schema updates for the time of its update
ListenToSchemaUpdates(g) ==
    LET me == goroutines[g]
    IN  /\ pc # "crashed"
        /\ At(g, "listenToSchemaUpdates")
        /\ CanLock(stationUpdatesMu)
        /\ stationUpdatesSubs' =
               listenToSchemaUpdates(stationUpdatesSubs, getInternalName(me.station))
        /\ Goes(g, me, "create")
        /\ UNCHANGED <<producers, producersMap, stationFunctionSubs,
                       stationPartitions, clientsUpdatesSub, pc, paf, ret, destroyed, rrCalls,
                       stationUpdatesMu, sdkClientsUpdatesMu>>

\* Conn.create: the creation request is sent and answered with the snapshot
CreateRequest(g) ==
    LET me == goroutines[g]
    IN  /\ pc # "crashed"
        /\ At(g, "create")
        /\ Goes(g, [me EXCEPT !.reqs = request(ConcurrentSnapshot, DefaultTimeoutRetry).reqs],
                "Lock332")
        /\ UNCHANGED <<producers, producersMap, stationUpdatesSubs, stationFunctionSubs,
                       stationPartitions, clientsUpdatesSub, pc, paf, ret, destroyed, rrCalls,
                       stationUpdatesMu, sdkClientsUpdatesMu>>

\* handleCreationResp: p.conn.stationUpdatesMu.Lock()
LockStationUpdates(g) ==
    /\ pc # "crashed"
    /\ At(g, "Lock332")
    /\ CanLock(stationUpdatesMu)
    /\ stationUpdatesMu' = RWMutex(TRUE, 0)
    /\ Goes(g, goroutines[g], "L333")
    /\ UNCHANGED <<producers, producersMap, stationUpdatesSubs, stationFunctionSubs,
                   stationPartitions, clientsUpdatesSub, pc, paf, ret, destroyed, rrCalls,
                   sdkClientsUpdatesMu>>

\* handleCreationResp: handleSchemaUpdateInit writes the schema, Unlock()
WriteSchema(g) ==
    LET me == goroutines[g]
    IN  /\ pc # "crashed"
        /\ At(g, "L333")
        /\ stationUpdatesSubs' =
               handleSchemaUpdateInit(stationUpdatesSubs, getInternalName(me.station),
                                      ConcurrentSnapshot.SchemaType)
        /\ stationUpdatesMu' = Unlocked
        /\ Goes(g, me, "L337")
        /\ UNCHANGED <<producers, producersMap, stationFunctionSubs,
                       stationPartitions, clientsUpdatesSub, pc, paf, ret, destroyed, rrCalls,
                       sdkClientsUpdatesMu>>

\* handleCreationResp: the partitions of the station are written into
\* Conn.stationPartitions, no lock held, and the generator is made
WritePartitions(g) ==
    LET me == goroutines[g]
        sn == getInternalName(me.station)
    IN  /\ pc # "crashed"
        /\ At(g, "L337")
        /\ stationPartitions' = Put(stationPartitions, sn, ConcurrentSnapshot.PartitionsList)
        /\ producers' = IF Len(ConcurrentSnapshot.PartitionsList) # 0
                        THEN [producers EXCEPT ![me.new].PartitionGenerator =
                                 newRoundRobinGenerator(ConcurrentSnapshot.PartitionsList)]
                        ELSE producers
        /\ Goes(g, me, IF ConcurrentSnapshot.StationVersion >= 2 THEN "L344" ELSE "Lock350")
        /\ UNCHANGED <<producersMap, stationUpdatesSubs, stationFunctionSubs,
                       clientsUpdatesSub, pc, paf, ret, destroyed, rrCalls,
                       stationUpdatesMu, sdkClientsUpdatesMu>>

\* handleCreationResp: listenToFunctionsUpdates
ListenToFunctionsUpdates(g) ==
    LET me == goroutines[g]
    IN  /\ pc # "crashed"
        /\ At(g, "L344")
        /\ stationFunctionSubs' =
               listenToFunctionsUpdates(stationFunctionSubs, getInternalName(me.station),
                                        ConcurrentSnapshot.StationPartitionsFirstFunctions)
        /\ Goes(g, me, "Lock350")
        /\ UNCHANGED <<producers, producersMap, stationUpdatesSubs,
                       stationPartitions, clientsUpdatesSub, pc, paf, ret, destroyed, rrCalls,
                       stationUpdatesMu, sdkClientsUpdatesMu>>

\* handleCreationResp: p.conn.sdkClientsUpdatesMu.Lock()
LockClientsUpdates(g) ==
    /\ pc # "crashed"
    /\ At(g, "Lock350")
    /\ CanLock(sdkClientsUpdatesMu)
    /\ sdkClientsUpdatesMu' = RWMutex(TRUE, 0)
    /\ Goes(g, goroutines[g], "L351")
    /\ UNCHANGED <<producers, producersMap, stationUpdatesSubs, stationFunctionSubs,
                   stationPartitions, clientsUpdatesSub, pc, paf, ret, destroyed, rrCalls,
                   stationUpdatesMu>>

\* handleCreationResp: the notification flag and the dead-letter flag of the
\* station are written, Unlock(); the creation returns to
\* createSingleStationProducer
WriteClientsUpdates(g) ==
    LET me == goroutines[g]
        sn == getInternalName(me.station)
    IN  /\ pc # "crashed"
        /\ At(g, "L351")
        /\ clientsUpdatesSub' =
               [send_notification |-> ConcurrentSnapshot.ClusterSendNotification,
                StationSchemaverseToDlsMap |->
                    Put(clientsUpdatesSub.StationSchemaverseToDlsMap, sn,
                        ConcurrentSnapshot.SchemaVerseToDls)]
        /\ sdkClientsUpdatesMu' = Unlocked
        /\ Goes(g, me, "cacheProducer")
        /\ UNCHANGED <<producers, producersMap, stationUpdatesSubs, stationFunctionSubs,
                       stationPartitions, pc, paf, ret, destroyed, rrCalls,
                       stationUpdatesMu>>

\* createSingleStationProducer: c.cacheProducer(&p); return &p, nil
CacheProducer(g) ==
    LET me == goroutines[g]
    IN  /\ pc # "crashed"
        /\ At(g, "cacheProducer")
        /\ producersMap' = cacheProducer(producersMap, producers, me.new)
        /\ Returns(g, [me EXCEPT !.prod = me.new])
        /\ UNCHANGED <<producers, stationUpdatesSubs, stationFunctionSubs,
                       stationPartitions, clientsUpdatesSub, pc, paf, ret, destroyed, rrCalls,
                       stationUpdatesMu, sdkClientsUpdatesMu>>

\* Producer.Produce called by goroutine g on the producer it was returned
CallProduce(g, verdict) ==
    LET me == goroutines[g]
    IN  /\ pc # "crashed"
        /\ At(g, "idle")
        /\ me.prod # 0
        /\ me.calls < MaxCalls
        /\ Goes(g, [me EXCEPT !.op = "Produce", !.calls = @ + 1, !.err = FALSE,
                              !.verdict = verdict, !.stream = <<>>],
                "validateMsg")
        /\ UNCHANGED <<producers, producersMap, stationUpdatesSubs, stationFunctionSubs,
                       stationPartitions, clientsUpdatesSub, pc, paf, ret, destroyed, rrCalls,
                       stationUpdatesMu, sdkClientsUpdatesMu>>

\* produce, validateMsg: the schema details are read under the read lock of
\* the schema updates; a rejected payload goes on to sendMsgToDls
ValidateMsg(g) ==
    LET me == goroutines[g]
        sd == getSchemaDetails(stationUpdatesSubs, me.station)
        v  == sdValidateMsg(originalMsgBytes(ConcurrentOpts.Message).bytes, me.verdict)
    IN  /\ pc # "crashed"
        /\ At(g, "validateMsg")
        /\ CanRLock(stationUpdatesMu)
        /\ IF ~sd.ok THEN Returns(g, [me EXCEPT !.err = TRUE])
           ELSE IF sd.schemaType # "" /\ ~v.ok THEN Goes(g, me, "L609")
           ELSE Goes(g, me, "L513")
        /\ UNCHANGED <<producers, producersMap, stationUpdatesSubs, stationFunctionSubs,
                       stationPartitions, clientsUpdatesSub, pc, paf, ret, destroyed, rrCalls,
                       stationUpdatesMu, sdkClientsUpdatesMu>>

\* sendMsgToDls: the dead-letter flag and the notification flag are read, no
\* lock held; produce returns the validation error
SendMsgToDls(g) ==
    /\ pc # "crashed"
    /\ At(g, "L609")
    /\ Returns(g, [goroutines[g] EXCEPT !.err = TRUE])
    /\ UNCHANGED <<producers, producersMap, stationUpdatesSubs, stationFunctionSubs,
                   stationPartitions, clientsUpdatesSub, pc, paf, ret, destroyed, rrCalls,
                   stationUpdatesMu, sdkClientsUpdatesMu>>

\* produce: the partitions of the station are read from
\* Conn.stationPartitions, no lock held, and the stream name is made
ReadPartitions(g) ==
    LET me   == goroutines[g]
        strm == streamName(producers[me.prod], ConcurrentOpts, stationPartitions)
    IN  /\ pc # "crashed"
        /\ At(g, "L513")
        /\ IF strm.rr
           THEN /\ rrCalls[me.prod] < MaxRR
                /\ rrCalls' = [rrCalls EXCEPT ![me.prod] = @ + 1]
                /\ producers' = [producers EXCEPT ![me.prod].PartitionGenerator = NextCursor(@)]
           ELSE UNCHANGED <<rrCalls, producers>>
        /\ pc' = IF strm.res = "panic" THEN "crashed" ELSE pc
        /\ IF strm.res = "error" THEN Returns(g, [me EXCEPT !.err = TRUE])
           ELSE Goes(g, [me EXCEPT !.stream = strm.name], "L540")
        /\ UNCHANGED <<producersMap, stationUpdatesSubs, stationFunctionSubs,
                       stationPartitions, clientsUpdatesSub, paf, ret, destroyed,
                       stationUpdatesMu, sdkClientsUpdatesMu>>

\* produce: the lookup of the station in Conn.stationFunctionSubs
LookupFunctionsMap(g) ==
    LET me == goroutines[g]
    IN  /\ pc # "crashed"
        /\ At(g, "L540")
        /\ Goes(g, me, IF HasKey(stationFunctionSubs, getInternalName(me.station))
                       THEN "RLock543" ELSE "brokerPublish")
        /\ UNCHANGED <<producers, producersMap, stationUpdatesSubs, stationFunctionSubs,
                       stationPartitions, clientsUpdatesSub, pc, paf, ret, destroyed, rrCalls,
                       stationUpdatesMu, sdkClientsUpdatesMu>>

\* produce: functionsMap.StationFunctionsMu.RLock()
RLockFunctions(g) ==
    LET me == goroutines[g]
        sn == getInternalName(me.station)
    IN  /\ pc # "crashed"
        /\ At(g, "RLock543")
        /\ CanRLock(stationFunctionSubs[sn].StationFunctionsMu)
        /\ stationFunctionSubs' =
               [stationFunctionSubs EXCEPT ![sn].StationFunctionsMu.readers = @ + 1]
        /\ Goes(g, me, "L545")
        /\ UNCHANGED <<producers, producersMap, stationUpdatesSubs,
                       stationPartitions, clientsUpdatesSub, pc, paf, ret, destroyed, rrCalls,
                       stationUpdatesMu, sdkClientsUpdatesMu>>

\* produce: the error of strconv.Atoi is returned, the read lock still held;
\* otherwise the functions of the partition are read and RUnlock() follows
ReadFunctions(g) ==
    LET me   == goroutines[g]
        sn   == getInternalName(me.station)
        subj == fullSubjectName(producers[me.prod], me.stream, stationFunctionSubs)
    IN  /\ pc # "crashed"
        /\ At(g, "L545")
        /\ IF subj.res = "error"
           THEN /\ Returns(g, [me EXCEPT !.err = TRUE])
                /\ UNCHANGED stationFunctionSubs
           ELSE /\ stationFunctionSubs' =
                       [stationFunctionSubs EXCEPT ![sn].StationFunctionsMu.readers = @ - 1]
                /\ Goes(g, me, "brokerPublish")
        /\ UNCHANGED <<producers, producersMap, stationUpdatesSubs,
                       stationPartitions, clientsUpdatesSub, pc, paf, ret, destroyed, rrCalls,
                       stationUpdatesMu, sdkClientsUpdatesMu>>

\* produce: brokerPublish, and the return of the asynchronous publish
BrokerPublish(g) ==
    /\ pc # "crashed"
    /\ At(g, "brokerPublish")
    /\ Returns(g, goroutines[g])
    /\ UNCHANGED <<producers, producersMap, stationUpdatesSubs, stationFunctionSubs,
                   stationPartitions, clientsUpdatesSub, pc, paf, ret, destroyed, rrCalls,
                   stationUpdatesMu, sdkClientsUpdatesMu>>

\* The listener of the functions updates of station sn, run by the dispatch
\* goroutine: StationFunctionsMu.Lock()
LockFunctions(sn) ==
    LET me == goroutines[0]
    IN  /\ pc # "crashed"
        /\ At(0, "idle")
        /\ me.calls < MaxCalls
        /\ HasKey(stationFunctionSubs, sn)
        /\ CanLock(stationFunctionSubs[sn].StationFunctionsMu)
        /\ stationFunctionSubs' =
               [stationFunctionSubs EXCEPT ![sn].StationFunctionsMu.writer = TRUE]
        /\ Goes(0, [me EXCEPT !.op = "FunctionsUpdate", !.station = sn, !.calls = @ + 1],
                "update")
        /\ UNCHANGED <<producers, producersMap, stationUpdatesSubs,
                       stationPartitions, clientsUpdatesSub, pc, paf, ret, destroyed, rrCalls,
                       stationUpdatesMu, sdkClientsUpdatesMu>>

\* The listener replaces the functions map of the station, Unlock()
WriteFunctions(functions) ==
    LET me == goroutines[0]
    IN  /\ pc # "crashed"
        /\ At(0, "update")
        /\ stationFunctionSubs' =
               [stationFunctionSubs EXCEPT ![me.station].PartitionsFunctions = functions,
                                           ![me.station].StationFunctionsMu.writer = FALSE]
        /\ Returns(0, me)
        /\ UNCHANGED <<producers, producersMap, stationUpdatesSubs,
                       stationPartitions, clientsUpdatesSub, pc, paf, ret, destroyed, rrCalls,
                       stationUpdatesMu, sdkClientsUpdatesMu>>

\* Goroutine g is in the statement that writes / reads the partitions of
\* station sn in Conn.stationPartitions
WritesPartitions(g, sn) == At(g, "L337") /\ getInternalName(goroutines[g].station) = sn
ReadsPartitions(g, sn) == At(g, "L513") /\ getInternalName(goroutines[g].station) = sn

\* The Go runtime ends the process when it finds a map written while it is
\* read or written by another goroutine
ConcurrentMapAccess ==
    /\ pc # "crashed"
    /\ \E g, h \in Callers, sn \in ConcurrentStations :
           /\ g # h
           /\ WritesPartitions(g, sn)
           /\ WritesPartitions(h, sn) \/ ReadsPartitions(h, sn)
    /\ pc' = "crashed"
    /\ UNCHANGED <<producers, producersMap, stationUpdatesSubs, stationFunctionSubs,
                   stationPartitions, clientsUpdatesSub, paf, ret, destroyed, rrCalls,
                   stationUpdatesMu, sdkClientsUpdatesMu, goroutines>>

NextConcurrent ==
    \/ \E g \in Callers, st \in ConcurrentStations : CallCreateProducer(g, st, ConcurrentName)
    \/ \E g \in Callers : GetProducer(g)
    \/ \E g \in Callers : ListenToSchemaUpdates(g)
    \/ \E g \in Callers : CreateRequest(g)
    \/ \E g \in Callers : LockStationUpdates(g)
    \/ \E g \in Callers : WriteSchema(g)
    \/ \E g \in Callers : WritePartitions(g)
    \/ \E g \in Callers : ListenToFunctionsUpdates(g)
    \/ \E g \in Callers : LockClientsUpdates(g)
    \/ \E g \in Callers : WriteClientsUpdates(g)
    \/ \E g \in Callers : CacheProducer(g)
    \/ \E g \in Callers, v \in {"ok", "failNil"} : CallProduce(g, v)
    \/ \E g \in Callers : ValidateMsg(g)
    \/ \E g \in Callers : SendMsgToDls(g)
    \/ \E g \in Callers : ReadPartitions(g)
    \/ \E g \in Callers : LookupFunctionsMap(g)
    \/ \E g \in Callers : RLockFunctions(g)
    \/ \E g \in Callers : ReadFunctions(g)
    \/ \E g \in Callers : BrokerPublish(g)
    \/ \E sn \in ConcurrentStations : LockFunctions(sn)
    \/ \E f \in FunctionMaps : WriteFunctions(f)
    \/ ConcurrentMapAccess

SpecConcurrent == Init /\ [][NextConcurrent]_vars

----------------------------------------------------------------------------
(* Locks and the station metadata: SpecConcurrent *)

\* The metadata the statement goroutine g is in writes, and reads: the schema,
\* the partitions and the functions of a station, the flags of the connection
\* (notification, dead-letter per station)
Writing(g) ==
    LET sn == getInternalName(goroutines[g].station)
    IN  CASE At(g, "L333")   -> {<<"schema", sn>>}
          [] At(g, "L337")   -> {<<"partitions", sn>>}
          [] At(g, "L351")   -> {<<"flags", <<>>>>}
          [] At(g, "update") -> {<<"functions", sn>>}
          [] OTHER           -> {}

Reading(g) ==
    LET sn == getInternalName(goroutines[g].station)
    IN  CASE At(g, "L513") -> {<<"partitions", sn>>}
          [] At(g, "L609") -> {<<"flags", <<>>>>}
          [] At(g, "L545") -> {<<"functions", sn>>}
          [] OTHER         -> {}

\* C24: whatever the interleaving of creations, functions updates and
\* publishes, no goroutine reads or writes a piece of station metadata while
\* another goroutine writes the same piece.
C24_NoAccessOverlapsWrite ==
    \A g \in Goroutines, h \in Goroutines :
        g # h => Writing(g) \cap (Writing(h) \cup Reading(h)) = {}

\* The callers whose CreateProducer of the station and name is under way or
\* was their last call
CreatorsOf(stationName, name) ==
    {g \in Callers : /\ goroutines[g].op = "CreateProducer"
                     /\ goroutines[g].station = stationName
                     /\ goroutines[g].name = name}

RECURSIVE SumOfReqs(_)
SumOfReqs(G) ==
    IF G = {} THEN 0
    ELSE LET g == CHOOSE x \in G : TRUE IN goroutines[g].reqs + SumOfReqs(G \ {g})

\* C25: the callers of CreateProducer for one station and name send one
\* creation request at most between them, and are all returned the same
\* producer.
C25_ConcurrentCreateSharesOneProducer ==
    \A st \in ConcurrentStations :
        LET G == CreatorsOf(st, ConcurrentName)
        IN  /\ SumOfReqs(G) <= 1
            /\ \A g, h \in G :
                   (At(g, "idle") /\ At(h, "idle")) => goroutines[g].prod = goroutines[h].prod

\* C29: the read locks held on the functions map of a station are those of
\* the goroutines that are between the RLock and the RUnlock of a Produce: a
\* Produce that returned, with or without an error, holds none.
C29_ReadLockReleasedOnReturn ==
    \A sn \in DOMAIN stationFunctionSubs :
        stationFunctionSubs[sn].StationFunctionsMu.readers =
            Cardinality({g \in Callers : At(g, "L545")
                                         /\ getInternalName(goroutines[g].station) = sn})

----------------------------------------------------------------------------
(* SpecLegacy: producers of one station created against a broker that      *)
(* answers with a snapshot, or with the plaintext reply of an older broker, *)
(* and the publishes on them                                               *)

LegacyStation == <<"s", "1">>
LegacyNames == {<<"a">>, <<"b">>}

\* The creation replies: a snapshot of a station of the first version, the
\* empty reply of an older broker (success), its plaintext rejection
LegacyReplies ==
    {CreationReply("json", <<>>, <<>>, "", l, 1, EmptyMap, FALSE, FALSE) : l \in PartitionLists}
    \cup {RawReply(<<>>), RawReply(RejectText)}

NextLegacy ==
    \/ \E n \in LegacyNames, r \in LegacyReplies :
          CreateProducer(LegacyStation, n, FALSE, <<>>, r, "none")
    \/ \E ptr \in 1..MaxProducers :
          Produce(ptr, Msg("bytes", <<"h", "i">>), NoHeaders, "default", <<>>,
                  DefaultPartitionNumber, "ok", TRUE, SideOk)

SpecLegacy == Init /\ [][NextLegacy]_vars

\* The producers CreateProducer returned: the single-station producers of
\* the heap
ReturnedProducers == {ptr \in 1..Len(producers) : ~producers[ptr].isMultiStationProducer}

\* C31: for every producer CreateProducer returned, the connection holds the
\* partition list of the producer's station, and the producer has a generator
\* whenever the list has more than one partition; no Produce on such a
\* producer panics.
C31_ReturnedProducerHasStationMetadata ==
    /\ \A ptr \in ReturnedProducers :
           LET sn == getInternalName(producers[ptr].stationName)
           IN  /\ HasKey(stationPartitions, sn)
               /\ Len(stationPartitions[sn]) > 1 => producers[ptr].PartitionGenerator # NilPG
    /\ ret.op = "Produce" => ret.err.kind # "panic"

====
